---- MODULE Spec2Model ----
(***************************************************************************)
(* cs2-market-tracker: the change detection and ranking engine.            *)
(*                                                                         *)
(*   detect_spikes.py          one aggregation pipeline over the hourly    *)
(*                             time-series store, merged into `alerts`     *)
(*   top_changes_snapshot.py   daily per-mode snapshots of `alerts`        *)
(*   top_changes_current_day.py  per-category snapshots with fallback     *)
(*   csfloat_current_prices_hourly.py  the hourly ingestion that writes    *)
(*                             the time-series store                       *)
(*                                                                         *)
(* Numbers are exact rationals [t, n, d] (d > 0); a BSON null is the value *)
(* Null and a stored non-numeric string is Str.  Within the value sets of  *)
(* this model the IEEE doubles the server computes compare exactly as the  *)
(* rationals do (division is correctly rounded and monotone).              *)
(***************************************************************************)
EXTENDS Integers, Sequences, FiniteSets, TLC

VARIABLES
    hourly_prices,    \* csfloat_hourly_price_history: item -> (hour key -> value)
    hourly_quantity,  \* csfloat_hourly_price_history: item -> (hour key -> value)
    alerts,           \* alerts collection: <<csfloat_id, hour>> -> changes array
    run_result,       \* how the last detect_spikes.main() ended
    now,              \* the UTC clock, in whole hours since the epoch of the model
    metric,           \* TOP_METRIC of the deployment ("pct" or "abs")
    snap,             \* snapshot collections: <<collection, snapshot_date>> -> document
    pol_in,           \* a single history row handed to the threshold stages
    pol_out,          \* what the threshold stages made of pol_in
    current_prices,   \* current_prices collection: item -> latest listing
    flush,            \* the hourly run in progress: its items, its futures, the
                      \* futures as_completed has yielded, errs, and whether
                      \* the errors have been printed
    item_name,        \* a name handed to classify_item
    category,         \* what classify_item returned for item_name
    detected          \* history: alerts as it would be had no record been deleted

vars == <<hourly_prices, hourly_quantity, alerts, run_result, now, metric, snap,
          pol_in, pol_out, current_prices, flush, item_name, category, detected>>

-----------------------------------------------------------------------------
(* Values *)

Null == [t |-> "null", n |-> 0, d |-> 1]
Str == [t |-> "str", n |-> 0, d |-> 1]
Num(a) == [t |-> "num", n |-> a, d |-> 1]
Rat(a, b) == IF b < 0 THEN [t |-> "num", n |-> 0 - a, d |-> 0 - b]
             ELSE [t |-> "num", n |-> a, d |-> b]
DivError == [t |-> "raise", n |-> 0, d |-> 1]

IsNull(x) == x.t = "null"
IsNum(x) == x.t = "num"

AbsInt(a) == IF a < 0 THEN 0 - a ELSE a

\* x < y, x = y on numbers (cross-multiplied; both denominators are positive)
NumLt(x, y) == x.n * y.d < y.n * x.d
NumEq(x, y) == x.n * y.d = y.n * x.d
NumGe(x, y) == ~NumLt(x, y)
NumLe(x, y) == ~NumLt(y, x)
IsZero(x) == IsNum(x) /\ x.n = 0

\* $subtract, $abs, $divide of the aggregation language (null in, null out)
Subtract(x, y) ==
    IF IsNull(x) \/ IsNull(y) THEN Null
    ELSE Rat(x.n * y.d - y.n * x.d, x.d * y.d)
AbsVal(x) == IF IsNull(x) THEN Null ELSE Rat(AbsInt(x.n), x.d)
Divide(x, y) ==
    IF IsNull(x) \/ IsNull(y) THEN Null
    ELSE IF y.n = 0 THEN DivError
    ELSE Rat(x.n * y.d, x.d * y.n)

\* $toDouble / $toInt: null stays null, a number converts, a non-numeric
\* string raises (the stages give no onError)
ConvRaises_Null(v) == v.t \in {"str", "null"}
ConvRaises(v) == v.t = "str"
ToNumber(v) == IF IsNull(v) THEN Null ELSE v

-----------------------------------------------------------------------------
(* Configuration of detect_spikes.py *)

PRICE_PCT == Rat(15, 100)      \* 0.15
QTY_PCT == Rat(50, 100)        \* 0.50
MIN_QTY_DELTA == 10
Neg(x) == Rat(0 - x.n, x.d)

-----------------------------------------------------------------------------
(* Period keys *)

HOURS_PER_DAY == 24
MaxHour == 25

\* the hours the model's clock visits: the last hour of day 0 and the first
\* hours of day 1
Hours == (HOURS_PER_DAY - 1)..MaxHour

\* now.strftime("%Y-%m-%dT%H:00"): the key holds the date and the hour of
\* day; zero padding makes string order the order of <<date, hour of day>>
hour_key(t) == <<t \div HOURS_PER_DAY, t % HOURS_PER_DAY>>
KeyLess(k1, k2) == k1[1] < k2[1] \/ (k1[1] = k2[1] /\ k1[2] < k2[2])
\* $toDate of key + ":00Z"
ToDate(k) == k[1] * HOURS_PER_DAY + k[2]

-----------------------------------------------------------------------------
(* detect_spikes.py: the stages of the pipeline, per history document *)

NoHour == <<>>

RECURSIVE SortKeys(_)
\* the keys of a map in ascending order ($objectToArray, $sortArray by k)
SortKeys(K) ==
    IF K = {} THEN <<>>
    ELSE LET k == CHOOSE x \in K : \A y \in K : ~KeyLess(x, y)
         IN Append(SortKeys(K \ {k}), k)

\* { $slice: [ { $sortArray: ... }, -2 ] } as a sequence of [k, v]
Last2(m) ==
    LET ks == SortKeys(DOMAIN m)
        l2 == IF Len(ks) <= 2 THEN ks ELSE SubSeq(ks, Len(ks) - 1, Len(ks))
    IN [j \in 1..Len(l2) |-> [k |-> l2[j], v |-> m[l2[j]]]]

\* the stored values the third $project converts: element -2 and element -1
PrevRaw(l2) == IF Len(l2) > 1 THEN l2[Len(l2) - 1].v ELSE Null
CurRaw(l2) == IF Len(l2) > 0 THEN l2[Len(l2)].v ELSE Null

\* $toDouble / $toInt raises on this document
RowRaises(pm, qm) ==
    \/ ConvRaises(PrevRaw(Last2(pm)))
    \/ ConvRaises(CurRaw(Last2(pm)))
    \/ ConvRaises(PrevRaw(Last2(qm)))
    \/ ConvRaises(CurRaw(Last2(qm)))

\* the third $project: hour, price_prev, price_cur, qty_prev, qty_cur
RowOf(pm, qm) ==
    LET l2p == Last2(pm)
        l2q == Last2(qm)
    IN [hour |-> IF Len(l2p) > 0 THEN l2p[Len(l2p)].k ELSE NoHour,
        price_prev |-> ToNumber(PrevRaw(l2p)),
        price_cur |-> ToNumber(CurRaw(l2p)),
        qty_prev |-> ToNumber(PrevRaw(l2q)),
        qty_cur |-> ToNumber(CurRaw(l2q))]

\* $addFields
price_delta(prev, cur) ==
    IF ~IsNull(prev) /\ ~IsNull(cur) /\ ~IsZero(prev)
    THEN Divide(Subtract(cur, prev), prev)
    ELSE Null

qty_abs(prev, cur) ==
    IF ~IsNull(prev) /\ ~IsNull(cur) THEN AbsVal(Subtract(cur, prev)) ELSE Null

\* qty_delta on the fallback base max(cur, 1) when prev is zero
qty_delta_Fallback(prev, cur) ==
    IF ~IsNull(prev) /\ ~IsNull(cur)
    THEN IF ~IsZero(prev) THEN Divide(Subtract(cur, prev), prev)
         ELSE IF NumLt(cur, Num(1)) THEN Divide(Subtract(cur, prev), Num(1))
         ELSE Divide(Subtract(cur, prev), cur)
    ELSE Null

qty_delta(prev, cur) ==
    IF ~IsNull(prev) /\ ~IsZero(prev) /\ ~IsNull(cur)
    THEN Divide(Subtract(cur, prev), prev)
    ELSE Null

\* the price branches with strict bounds
PriceMatches_Strict(prev, cur) ==
    LET pd == price_delta(prev, cur)
    IN \/ IsNum(pd) /\ NumLt(PRICE_PCT, pd)
       \/ IsNum(pd) /\ NumLt(pd, Neg(PRICE_PCT))

\* the two price branches of the $match
PriceMatches(prev, cur) ==
    LET pd == price_delta(prev, cur)
    IN \/ IsNum(pd) /\ NumGe(pd, PRICE_PCT)
       \/ IsNum(pd) /\ NumLe(pd, Neg(PRICE_PCT))

\* the quantity branch as an $or of the floor and the percent rule
QtyMatches_Either(prev, cur) ==
    LET qa == qty_abs(prev, cur)
        qd == qty_delta(prev, cur)
    IN \/ IsNum(qa) /\ NumGe(qa, Num(MIN_QTY_DELTA))
       \/ IsNum(qd) /\ NumGe(qd, QTY_PCT)
       \/ IsNum(qd) /\ NumLe(qd, Neg(QTY_PCT))

\* the quantity branch without its $lte -QTY_PCT alternative
QtyMatches_RiseOnly(prev, cur) ==
    LET qa == qty_abs(prev, cur)
        qd == qty_delta(prev, cur)
    IN /\ IsNum(qa) /\ NumGe(qa, Num(MIN_QTY_DELTA))
       /\ IsNum(qd) /\ NumGe(qd, QTY_PCT)

\* the quantity branch of the $match
QtyMatches(prev, cur) ==
    LET qa == qty_abs(prev, cur)
        qd == qty_delta(prev, cur)
    IN /\ IsNum(qa) /\ NumGe(qa, Num(MIN_QTY_DELTA))
       /\ \/ IsNum(qd) /\ NumGe(qd, QTY_PCT)
          \/ IsNum(qd) /\ NumLe(qd, Neg(QTY_PCT))

Matches(r) ==
    \/ PriceMatches(r.price_prev, r.price_cur)
    \/ QtyMatches(r.qty_prev, r.qty_cur)

\* An element of the `changes` array.  An array literal turns an element
\* that evaluates to $$REMOVE (missing) into null: NullChange.
Change(f, prev, cur, pct) ==
    [field |-> f, prev |-> prev, cur |-> cur,
     abs_change |-> Subtract(cur, prev), pct_change |-> pct]
NullChange == [field |-> "null", prev |-> Null, cur |-> Null,
               abs_change |-> Null, pct_change |-> Null]

\* the last $project: the changes array of a matched row
PriceElement(r) ==
    IF ~IsNull(price_delta(r.price_prev, r.price_cur))
    THEN Change("price", r.price_prev, r.price_cur,
                price_delta(r.price_prev, r.price_cur))
    ELSE NullChange

QtyElement(r) ==
    IF ~IsNull(qty_abs(r.qty_prev, r.qty_cur))
       /\ ~IsNull(qty_delta(r.qty_prev, r.qty_cur))
    THEN Change("quantity", r.qty_prev, r.qty_cur,
                qty_delta(r.qty_prev, r.qty_cur))
    ELSE NullChange

ChangesOf(r) == <<PriceElement(r), QtyElement(r)>>

\* the change entries of a changes array (its non-null elements)
Entries(ch) == {ch[j] : j \in {x \in 1..Len(ch) : ch[x].field # "null"}}

-----------------------------------------------------------------------------
(* The tracked items *)

\* market_hash_name of the items of the model, as sequences of characters;
\* an item's csfloat_id is its index here
\*   1  "AK-47 | Case Hardened"     2  "AWP | Dragon Lore"
\*   3  "Sticker | Titan (Holo)"
ItemNames ==
    <<<<"A", "K", "-", "4", "7", " ", "|", " ", "C", "a", "s", "e", " ", "H", "a", "r", "d", "e", "n", "e", "d">>,
      <<"A", "W", "P", " ", "|", " ", "D", "r", "a", "g", "o", "n", " ", "L", "o", "r", "e">>,
      <<"S", "t", "i", "c", "k", "e", "r", " ", "|", " ", "T", "i", "t", "a", "n", " ", "(", "H", "o", "l", "o", ")">>>>
Items == 1..Len(ItemNames)

EmptyMap == [x \in {} |-> Null]

-----------------------------------------------------------------------------
(* detect_spikes.py: main() *)

\* the number of documents $merge buffers before it writes them
MergeBatch == 1

\* the row of history document i
Row(hp, hq, i) == RowOf(hp[i], hq[i])

\* the documents on which the aggregation fails: a conversion raises, or a
\* matched row has no hour to merge on
Faulty(hp, hq) ==
    {i \in DOMAIN hp :
        \/ RowRaises(hp[i], hq[i])
        \/ Matches(Row(hp, hq, i)) /\ Row(hp, hq, i).hour = NoHour}

\* the documents the pipeline reads before it fails (collection order)
Reached(hp, hq) ==
    IF Faulty(hp, hq) = {} THEN DOMAIN hp
    ELSE LET bad == CHOOSE i \in Faulty(hp, hq) : \A j \in Faulty(hp, hq) : i <= j
         IN {i \in DOMAIN hp : i < bad}

\* the documents that pass the $match and are written by $merge: all of them
\* when the pipeline completes, the full batches before the failure otherwise
Merged(hp, hq) ==
    LET m == {i \in Reached(hp, hq) : Matches(Row(hp, hq, i))}
        n == IF Faulty(hp, hq) = {} THEN Cardinality(m)
             ELSE (Cardinality(m) \div MergeBatch) * MergeBatch
    IN {i \in m : Cardinality({j \in m : j <= i}) <= n}

\* the key $merge matches on: csfloat_id and hour (hour_dt, a date)
AlertKey(hp, hq, i) == <<i, ToDate(Row(hp, hq, i).hour)>>

\* $merge that appends to the changes of a matched document
MergeInto_Append(a, hp, hq, ids) ==
    LET new == {AlertKey(hp, hq, i) : i \in ids}
    IN [k \in DOMAIN a \cup new |->
           IF k \in DOMAIN a /\ k \in new
           THEN a[k] \o ChangesOf(Row(hp, hq, k[1]))
           ELSE IF k \in new THEN ChangesOf(Row(hp, hq, k[1])) ELSE a[k]]

\* $merge: whenMatched replace, whenNotMatched insert
MergeInto(a, hp, hq, ids) ==
    LET new == {AlertKey(hp, hq, i) : i \in ids}
    IN [k \in DOMAIN a \cup new |->
           IF k \in new THEN ChangesOf(Row(hp, hq, k[1])) ELSE a[k]]

\* a pipeline whose $merge writes the matched rows' current values back into
\* the history documents as well
Detect_IntoHistory ==
    /\ alerts' = MergeInto(alerts, hourly_prices, hourly_quantity,
                           Merged(hourly_prices, hourly_quantity))
    /\ detected' = MergeInto(detected, hourly_prices, hourly_quantity,
                             Merged(hourly_prices, hourly_quantity))
    /\ run_result' = IF Faulty(hourly_prices, hourly_quantity) = {}
                     THEN "completed" ELSE "failed"
    /\ hourly_prices' = [i \in DOMAIN hourly_prices |->
                            IF i \in Merged(hourly_prices, hourly_quantity)
                            THEN [k \in {hour_key(now)} |-> hourly_prices[i][hour_key(now)]]
                            ELSE hourly_prices[i]]
    /\ UNCHANGED <<hourly_quantity, now, metric, snap, pol_in, pol_out,
                   current_prices, flush, item_name, category>>

\* the alerts collection after one run of the pipeline
AfterRun(a, hp, hq) == MergeInto(a, hp, hq, Merged(hp, hq))

Detect ==
    /\ alerts' = AfterRun(alerts, hourly_prices, hourly_quantity)
    /\ detected' = AfterRun(detected, hourly_prices, hourly_quantity)
    /\ run_result' = IF Faulty(hourly_prices, hourly_quantity) = {}
                     THEN "completed" ELSE "failed"
    /\ UNCHANGED <<hourly_prices, hourly_quantity, now, metric, snap, pol_in, pol_out,
                   current_prices, flush, item_name, category>>

-----------------------------------------------------------------------------
(* csfloat_current_prices_hourly.py: run_hourly_price_snapshot() *)

Listing(name, price, qty) == [market_hash_name |-> name, min_price |-> price, qty |-> qty]

\* the price lists the market API returns in the model
Feeds ==
    {<<Listing(1, l1[1], l1[2]), Listing(2, l2[1], l2[2])>> :
        l1 \in {<<Num(100), Num(10)>>, <<Num(120), Num(10)>>, <<Num(120), Num(20)>>},
        l2 \in {<<Num(100), Num(10)>>, <<Str, Num(10)>>}}

\* a $set that leaves out the key of a listing whose value is null
SetHour_SkipNull(m, items, key, field) ==
    LET ids == {items[j].market_hash_name : j \in 1..Len(items)}
        val(i) == LET j == CHOOSE x \in 1..Len(items) :
                               /\ items[x].market_hash_name = i
                               /\ \A y \in 1..Len(items) :
                                      items[y].market_hash_name = i => y <= x
                  IN IF field = "price" THEN items[j].min_price ELSE items[j].qty
        old(i) == IF i \in DOMAIN m THEN m[i] ELSE EmptyMap
    IN [i \in DOMAIN m \cup ids |->
           IF i \in ids
           THEN [k \in DOMAIN old(i) \cup (IF val(i) = Null THEN {} ELSE {key}) |->
                    IF k = key THEN val(i) ELSE old(i)[k]]
           ELSE m[i]]

\* $set of "hourly_prices.<hour_key>" / "hourly_quantity.<hour_key>" with
\* upsert, for every listing of the fetched list
SetHour(m, items, key, field) ==
    LET ids == {items[j].market_hash_name : j \in 1..Len(items)}
        val(i) == LET j == CHOOSE x \in 1..Len(items) :
                               /\ items[x].market_hash_name = i
                               /\ \A y \in 1..Len(items) :
                                      items[y].market_hash_name = i => y <= x
                  IN IF field = "price" THEN items[j].min_price ELSE items[j].qty
        old(i) == IF i \in DOMAIN m THEN m[i] ELSE EmptyMap
    IN [i \in DOMAIN m \cup ids |->
           IF i \in ids
           THEN [k \in DOMAIN old(i) \cup {key} |->
                    IF k = key THEN val(i) ELSE old(i)[k]]
           ELSE m[i]]

\* the document an UpdateOne of ops_current leaves for a listing
CurrentDoc(it, t) ==
    [csfloat_id |-> it.market_hash_name, price |-> it.min_price, quantity |-> it.qty,
     source |-> "csfloat", fetched_at |-> t]

\* $set of the minimal snapshot document with upsert, for every listing of
\* the fetched list
SetCurrent(c, items, t) ==
    LET ids == {items[j].market_hash_name : j \in 1..Len(items)}
        last(i) == CHOOSE x \in 1..Len(items) :
                       /\ items[x].market_hash_name = i
                       /\ \A y \in 1..Len(items) : items[y].market_hash_name = i => y <= x
    IN [i \in DOMAIN c \cup ids |->
           IF i \in ids THEN CurrentDoc(items[last(i)], t) ELSE c[i]]

\* no run in progress
NoFlush == [items |-> <<>>, futures |-> <<>>, seen |-> {}, errs |-> <<>>, reported |-> FALSE]
NotClassified == "none"

\* a whole run over the fetched list `items`, its chunks written one after
\* the other
IngestOf(items) ==
    /\ hourly_prices' = SetHour(hourly_prices, items, hour_key(now), "price")
    /\ hourly_quantity' = SetHour(hourly_quantity, items, hour_key(now), "qty")
    /\ current_prices' = SetCurrent(current_prices, items, now)
    /\ UNCHANGED <<alerts, run_result, now, metric, snap, pol_in, pol_out,
                   flush, item_name, category, detected>>

Ingest == \E items \in Feeds : IngestOf(items)

\* price lists with listings that lack min_price or qty (it.get gives None,
\* stored as null), and one with a malformed price
SparseFeeds ==
    {<<Listing(1, l[1], l[2])>> :
        l \in {<<Num(100), Num(10)>>, <<Num(120), Null>>, <<Null, Num(20)>>}}
      \cup {<<Listing(1, Num(100), Num(10)), Listing(2, Str, Num(10))>>}

IngestSparse == \E items \in SparseFeeds : IngestOf(items)

\* the price list of hour t of a market in which one item's price and
\* quantity move by more than the thresholds from every hour to the next
MovingFeed(t) ==
    IF t % 2 = 0 THEN <<Listing(1, Num(120), Num(20))>> ELSE <<Listing(1, Num(100), Num(10))>>

IngestMoving == IngestOf(MovingFeed(now))

\* an hour passes
Tick ==
    /\ now < MaxHour
    /\ now' = now + 1
    /\ UNCHANGED <<hourly_prices, hourly_quantity, alerts, run_result, metric, snap,
                   pol_in, pol_out,
                   current_prices, flush, item_name, category, detected>>

-----------------------------------------------------------------------------
(* csfloat_current_prices_hourly.py: the parallel flush, step by step *)

BULK_CHUNK == 2
BULK_WORKERS == 2

\* the number of listings of a fetched list
FlushLen == 3

\* it.get("market_hash_name") of a listing without a name
NoName == 0

\* the price lists the market API may return: listings of items 1, 2, 3 (item
\* 1 at either of two prices) and a listing without a name, in any order and
\* multiplicity
FlushFeeds ==
    [1..FlushLen -> {Listing(1, Num(100), Num(10)), Listing(1, Num(120), Num(20)),
                     Listing(2, Num(100), Num(10)), Listing(3, Num(100), Num(10)),
                     Listing(NoName, Num(100), Num(10))}]

\* the listings the loop builds operations for (`if not csfloat_id: continue`)
Named(items) == SelectSeq(items, LAMBDA it : it.market_hash_name # NoName)

\* chunk(lst, n) without a last partial chunk
chunk_Short(lst, n) ==
    [c \in 1..(Len(lst) \div n) |-> SubSeq(lst, (c - 1) * n + 1, c * n)]

\* chunk(lst, n)
chunk(lst, n) ==
    [c \in 1..((Len(lst) + n - 1) \div n) |->
        SubSeq(lst, (c - 1) * n + 1, IF c * n < Len(lst) THEN c * n ELSE Len(lst))]

\* the futures in submission order: for each pair of chunks, the write to
\* current_prices and then the write to the history (both operation lists
\* have the same length, so the remainder branch submits nothing)
Futures(items) ==
    LET cs == chunk(Named(items), BULK_CHUNK)
    IN [j \in 1..(2 * Len(cs)) |->
          [name |-> IF j % 2 = 1 THEN "current" ELSE "history",
           ops |-> cs[(j + 1) \div 2],
           left |-> 1..Len(cs[(j + 1) \div 2]),
           state |-> "queued"]]

\* run_hourly_price_snapshot() on the fetched list `items`, up to the
\* submission of the futures
SubmitOf(items) ==
    /\ flush = NoFlush
    /\ flush' = [items |-> items, futures |-> Futures(items),
                 seen |-> {}, errs |-> <<>>, reported |-> FALSE]
    /\ UNCHANGED <<hourly_prices, hourly_quantity, alerts, run_result, now, metric, snap,
                   pol_in, pol_out, current_prices, item_name, category, detected>>

Submit == \E items \in FlushFeeds : SubmitOf(items)

\* the price lists of the runs in which a bulk write may raise: listings of
\* items 1 and 2 and a listing without a name, in any order and multiplicity
RaisingFeeds ==
    [1..FlushLen -> {Listing(1, Num(100), Num(10)), Listing(2, Num(100), Num(10)),
                     Listing(NoName, Num(100), Num(10))}]

SubmitRaising == \E items \in RaisingFeeds : SubmitOf(items)

\* a free worker of the pool takes the next queued future
WorkerStarts ==
    \E j \in 1..Len(flush.futures) :
        /\ flush.futures[j].state = "queued"
        /\ \A i \in 1..(j - 1) : flush.futures[i].state # "queued"
        /\ Cardinality({i \in 1..Len(flush.futures) : flush.futures[i].state = "running"})
              < BULK_WORKERS
        /\ flush' = [flush EXCEPT !.futures[j].state = "running"]
        /\ UNCHANGED <<hourly_prices, hourly_quantity, alerts, run_result, now, metric,
                       snap, pol_in, pol_out, current_prices, item_name, category, detected>>

\* the server applies one operation of a running bulk_write (ordered=False:
\* in any order); the future completes with its last operation
WriteOp ==
    \E j \in 1..Len(flush.futures) :
        /\ flush.futures[j].state = "running"
        /\ \E x \in flush.futures[j].left :
              LET f == flush.futures[j]
                  it == f.ops[x]
              IN /\ flush' = [flush EXCEPT !.futures[j].left = f.left \ {x},
                                           !.futures[j].state =
                                               IF f.left = {x} THEN "done" ELSE "running"]
                 /\ IF f.name = "current"
                    THEN /\ current_prices' = SetCurrent(current_prices, <<it>>, now)
                         /\ UNCHANGED <<hourly_prices, hourly_quantity>>
                    ELSE /\ hourly_prices' =
                               SetHour(hourly_prices, <<it>>, hour_key(now), "price")
                         /\ hourly_quantity' =
                               SetHour(hourly_quantity, <<it>>, hour_key(now), "qty")
                         /\ UNCHANGED current_prices
        /\ UNCHANGED <<alerts, run_result, now, metric, snap, pol_in, pol_out,
                       item_name, category, detected>>

\* col.bulk_write raises in a running future (the operations it has not
\* applied stay unapplied); bulk_write() catches it and returns (name, 0, e)
WriteRaises ==
    \E j \in 1..Len(flush.futures) :
        /\ flush.futures[j].state = "running"
        /\ flush' = [flush EXCEPT !.futures[j].state = "raised"]
        /\ UNCHANGED <<hourly_prices, hourly_quantity, alerts, run_result, now, metric,
                       snap, pol_in, pol_out, current_prices, item_name, category, detected>>

\* one turn of `for f in as_completed(futures)`: a completed future is
\* yielded, and its error, if it returned one, is appended to errs
Collect ==
    \E j \in (1..Len(flush.futures)) \ flush.seen :
        /\ flush.futures[j].state \in {"done", "raised"}
        /\ flush' = [flush EXCEPT !.seen = flush.seen \cup {j},
                                  !.errs = IF flush.futures[j].state = "raised"
                                           THEN Append(flush.errs,
                                                       [name |-> flush.futures[j].name,
                                                        future |-> j])
                                           ELSE flush.errs]
        /\ UNCHANGED <<hourly_prices, hourly_quantity, alerts, run_result, now, metric,
                       snap, pol_in, pol_out, current_prices, item_name, category, detected>>

\* a report printed as soon as errs holds an error
Report_AtFirstError ==
    /\ flush # NoFlush
    /\ ~flush.reported
    /\ flush.errs # <<>>
    /\ flush' = [flush EXCEPT !.reported = TRUE]
    /\ UNCHANGED <<hourly_prices, hourly_quantity, alerts, run_result, now, metric,
                   snap, pol_in, pol_out, current_prices, item_name, category, detected>>

\* the end of the with block and `if errs:`: once as_completed has yielded
\* every future, the collected errors are printed
Report ==
    /\ flush # NoFlush
    /\ ~flush.reported
    /\ flush.seen = 1..Len(flush.futures)
    /\ flush' = [flush EXCEPT !.reported = TRUE]
    /\ UNCHANGED <<hourly_prices, hourly_quantity, alerts, run_result, now, metric,
                   snap, pol_in, pol_out, current_prices, item_name, category, detected>>

-----------------------------------------------------------------------------
(* The detection system: ingestion, the detector and the clock *)

NoRow == [price_prev |-> Null, price_cur |-> Null, qty_prev |-> Null, qty_cur |-> Null]
NotEvaluated == [state |-> "none"]

Init ==
    /\ hourly_prices = EmptyMap
    /\ hourly_quantity = EmptyMap
    /\ alerts = EmptyMap
    /\ run_result = "none"
    /\ now = HOURS_PER_DAY - 1
    /\ metric = "pct"
    /\ snap = EmptyMap
    /\ pol_in = NoRow
    /\ pol_out = NotEvaluated
    /\ current_prices = EmptyMap
    /\ flush = NoFlush
    /\ item_name = <<>>
    /\ category = NotClassified
    /\ detected = alerts

Next == Ingest \/ Detect \/ Tick

Spec == Init /\ [][Next]_vars

-----------------------------------------------------------------------------
(* One hourly run, flushed in parallel *)

InitFlush == Init

NextFlush == Submit \/ WorkerStarts \/ WriteOp

SpecFlush == InitFlush /\ [][NextFlush]_vars

\* the same run when a bulk write may raise, with the loop that collects the
\* results and the report after it
NextFlushErr == SubmitRaising \/ WorkerStarts \/ WriteOp \/ WriteRaises \/ Collect \/ Report

SpecFlushErr == InitFlush /\ [][NextFlushErr]_vars

\* every future of the run has completed
FlushDone ==
    /\ flush # NoFlush
    /\ \A j \in 1..Len(flush.futures) : flush.futures[j].state = "done"

\* the stores hold what the run's operations leave when applied one after
\* the other in list order
InListOrder ==
    /\ current_prices = SetCurrent(EmptyMap, Named(flush.items), now)
    /\ hourly_prices = SetHour(EmptyMap, Named(flush.items), hour_key(now), "price")
    /\ hourly_quantity = SetHour(EmptyMap, Named(flush.items), hour_key(now), "qty")

\* no two listings of the list name the same item
DistinctNames(items) ==
    \A i \in 1..Len(items), j \in 1..Len(items) :
        (i # j /\ items[i].market_hash_name = items[j].market_hash_name)
            => items[i].market_hash_name = NoName

\* C13 (as stated): for every fetched list, the stores after the parallel
\* flush are the same for every completion order (so they are what the
\* in-order completion leaves).
C13_OrderIndependent == FlushDone => InListOrder

\* C13 (amended): for every fetched list that names each item at most once,
\* the stores after the parallel flush are the same for every completion
\* order.
C13_OrderIndependentDistinct ==
    (FlushDone /\ DistinctNames(flush.items)) => InListOrder

\* a list of three different items has been flushed in two chunks per
\* collection
C13_Witness ==
    /\ FlushDone
    /\ DistinctNames(flush.items)
    /\ Len(Named(flush.items)) = FlushLen
    /\ Len(flush.futures) >= 4
    /\ Cardinality(DOMAIN current_prices) = FlushLen

-----------------------------------------------------------------------------
(* Claims about the detector *)

\* the change entries stored under key k of an alerts collection
StoredEntries(a, k) == IF k \in DOMAIN a THEN Entries(a[k]) ELSE {}

\* the value an item's map holds for the bucket of hour h (Null when the
\* map has no such key)
BucketValue(m, h) == IF hour_key(h) \in DOMAIN m THEN ToNumber(m[hour_key(h)]) ELSE Null

\* C1: every change entry stored in a change record has a field whose own
\* threshold rule qualified for that transition: a price entry only if the
\* price rule qualified, a quantity entry only if the quantity rule did.
C1_EntryQualified ==
    \A k \in DOMAIN alerts :
        \A e \in Entries(alerts[k]) :
            /\ e.field = "price" => PriceMatches(e.prev, e.cur)
            /\ e.field = "quantity" => QtyMatches(e.prev, e.cur)

\* C2: the entries a run stores under (item, period) compare the value of
\* that period's bucket with the value of the bucket one period before it;
\* when either bucket has no value for the field, no entry is stored.
C2_AdjacentBuckets ==
    [][Detect =>
        \A i \in Merged(hourly_prices, hourly_quantity) :
            LET k == AlertKey(hourly_prices, hourly_quantity, i)
            IN \A e \in StoredEntries(alerts', k) :
                  LET m == IF e.field = "price" THEN hourly_prices[i]
                           ELSE hourly_quantity[i]
                  IN /\ ~IsNull(BucketValue(m, k[2] - 1))
                     /\ e.prev = BucketValue(m, k[2] - 1)
                     /\ e.cur = BucketValue(m, k[2])]_vars

\* the entries a run produces for history document i
RunEntries(hp, hq, i) ==
    IF Matches(Row(hp, hq, i)) THEN Entries(ChangesOf(Row(hp, hq, i))) ELSE {}

\* C3: after a completed detector run the stored change list of every
\* (item, period) is exactly what this run produced for it; nothing an
\* earlier run stored under that key survives.
C3_RunReplaces ==
    [][(Detect /\ run_result' = "completed") =>
        \A i \in DOMAIN hourly_prices :
            StoredEntries(alerts', AlertKey(hourly_prices, hourly_quantity, i))
                = RunEntries(hourly_prices, hourly_quantity, i)]_vars

\* the history documents none of whose converted values is malformed
WellFormed(hp, hq) == {i \in DOMAIN hp : ~RowRaises(hp[i], hq[i])}
Restrict(m, S) == [i \in S |-> m[i]]

\* C4: a malformed stored value of one item does not abort the run, and
\* every other item gets the record it would get had that item been absent.
C4_MalformedSkipped ==
    [][Detect =>
        LET ok == WellFormed(hourly_prices, hourly_quantity)
        IN /\ run_result' = "completed"
           /\ alerts' = AfterRun(alerts, Restrict(hourly_prices, ok),
                                 Restrict(hourly_quantity, ok))]_vars

\* C5: from every reachable state, a detector run followed by a second run
\* on the unchanged time-series store leaves the alerts collection exactly
\* as the first run left it (same keys, same change lists).
C5_DetectIdempotent ==
    LET first == AfterRun(alerts, hourly_prices, hourly_quantity)
    IN AfterRun(first, hourly_prices, hourly_quantity) = first

\* a run has completed on the present store, it stored a record with both a
\* price and a quantity entry, and a further run would store it again
C5_Witness ==
    /\ run_result = "completed"
    /\ \E i \in Merged(hourly_prices, hourly_quantity) :
          LET k == AlertKey(hourly_prices, hourly_quantity, i)
          IN /\ k \in DOMAIN alerts
             /\ alerts[k] = ChangesOf(Row(hourly_prices, hourly_quantity, i))
             /\ Cardinality(Entries(alerts[k])) = 2
    /\ AfterRun(alerts, hourly_prices, hourly_quantity) = alerts

-----------------------------------------------------------------------------
(* The threshold stages on one row: $addFields, $match, $project *)

PolicyPrices == {Null, Num(0), Num(100), Num(115), Num(120)}
PolicyQtys == {Null, Num(0), Num(5), Num(10), Num(20), Num(100), Num(110)}

\* what $addFields / $match / $project make of a row; a $divide by zero
\* raises and fails the aggregation
EvalRow(r) ==
    LET pd == price_delta(r.price_prev, r.price_cur)
        qa == qty_abs(r.qty_prev, r.qty_cur)
        qd == qty_delta(r.qty_prev, r.qty_cur)
    IN IF pd = DivError \/ qd = DivError THEN [state |-> "raised"]
       ELSE [state |-> "done",
             price_delta |-> pd, qty_abs |-> qa, qty_delta |-> qd,
             price_matches |-> PriceMatches(r.price_prev, r.price_cur),
             qty_matches |-> QtyMatches(r.qty_prev, r.qty_cur),
             matched |-> Matches(r),
             changes |-> IF Matches(r) THEN ChangesOf(r) ELSE <<>>]

Evaluate ==
    /\ pol_out' = EvalRow(pol_in)
    /\ UNCHANGED <<hourly_prices, hourly_quantity, alerts, run_result, now, metric, snap,
                   pol_in, current_prices, flush, item_name, category, detected>>

InitPolicy ==
    /\ hourly_prices = EmptyMap
    /\ hourly_quantity = EmptyMap
    /\ alerts = EmptyMap
    /\ run_result = "none"
    /\ now = HOURS_PER_DAY - 1
    /\ metric = "pct"
    /\ snap = EmptyMap
    /\ pol_in \in [price_prev : PolicyPrices, price_cur : PolicyPrices,
                    qty_prev : PolicyQtys, qty_cur : PolicyQtys]
    /\ pol_out = NotEvaluated
    /\ current_prices = EmptyMap
    /\ flush = NoFlush
    /\ item_name = <<>>
    /\ category = NotClassified
    /\ detected = alerts

NextPolicy == Evaluate

SpecPolicy == InitPolicy /\ [][NextPolicy]_vars

\* the row is a quantity transition from zero
FromZero == IsZero(pol_in.qty_prev) /\ IsNum(pol_in.qty_cur)

\* C6 (as stated): a quantity transition with previous = 0 never raises, and
\* it qualifies when |current - previous| >= min_absolute_delta and
\* |current - previous| / max(current, 1) >= the quantity percent threshold.
C6_ZeroFallback ==
    (pol_out # NotEvaluated /\ FromZero) =>
        /\ pol_out.state = "done"
        /\ LET delta == AbsVal(Subtract(pol_in.qty_cur, pol_in.qty_prev))
               base == IF NumLt(pol_in.qty_cur, Num(1)) THEN Num(1) ELSE pol_in.qty_cur
           IN (NumGe(delta, Num(MIN_QTY_DELTA)) /\ NumGe(Divide(delta, base), QTY_PCT))
                 => (pol_out.qty_matches
                     /\ \E e \in Entries(pol_out.changes) : e.field = "quantity")

\* C6 (amended): a quantity transition with previous = 0 never raises and
\* never qualifies: its percent delta is null, the quantity rule does not
\* match and no quantity entry is produced, whatever the size of the rise.
C6_ZeroSkipped ==
    (pol_out # NotEvaluated /\ FromZero) =>
        /\ pol_out.state = "done"
        /\ IsNull(pol_out.qty_delta)
        /\ ~pol_out.qty_matches
        /\ \A e \in Entries(pol_out.changes) : e.field # "quantity"

\* a rise from zero of at least the absolute floor has been evaluated, in a
\* row whose price change put the row into the output
C6_Witness ==
    /\ pol_out # NotEvaluated
    /\ FromZero
    /\ NumGe(pol_in.qty_cur, Num(MIN_QTY_DELTA))
    /\ pol_out.state = "done"
    /\ pol_out.matched

-----------------------------------------------------------------------------
(* top_changes_current_day.py: classify_item *)

UpperCase == <<"A", "B", "C", "D", "E", "F", "G", "H", "I", "J", "K", "L", "M",
               "N", "O", "P", "Q", "R", "S", "T", "U", "V", "W", "X", "Y", "Z">>
LowerCase == <<"a", "b", "c", "d", "e", "f", "g", "h", "i", "j", "k", "l", "m",
               "n", "o", "p", "q", "r", "s", "t", "u", "v", "w", "x", "y", "z">>
Digits == {"0", "1", "2", "3", "4", "5", "6", "7", "8", "9"}

\* str.lower()
LowerChar(c) ==
    IF \E j \in 1..Len(UpperCase) : UpperCase[j] = c
    THEN LowerCase[CHOOSE j \in 1..Len(UpperCase) : UpperCase[j] = c]
    ELSE c
Lower(str) == [j \in 1..Len(str) |-> LowerChar(str[j])]

\* the regex class \w
IsWordChar(c) ==
    \/ \E j \in 1..Len(LowerCase) : LowerCase[j] = c
    \/ \E j \in 1..Len(UpperCase) : UpperCase[j] = c
    \/ c \in Digits
    \/ c = "_"

\* `lit in str`
Contains(str, lit) ==
    \E j \in 1..(Len(str) - Len(lit) + 1) : SubSeq(str, j, j + Len(lit) - 1) = lit

\* \b between str[j] and str[j + 1] (the ends of the string count as \W)
WordAt(str, j) == j >= 1 /\ j <= Len(str) /\ IsWordChar(str[j])
Boundary(str, j) == WordAt(str, j) # WordAt(str, j + 1)

\* re.search(r"\b<lit>\b", str)
SearchWord(lit, str) ==
    \E j \in 1..(Len(str) - Len(lit) + 1) :
        /\ SubSeq(str, j, j + Len(lit) - 1) = lit
        /\ Boundary(str, j - 1)
        /\ Boundary(str, j + Len(lit) - 1)

_CASE_KEYWORDS ==
    <<<<"c", "a", "s", "e">>,
      <<"c", "a", "p", "s", "u", "l", "e">>,
      <<"p", "a", "c", "k", "a", "g", "e">>,
      <<"s", "o", "u", "v", "e", "n", "i", "r", " ", "p", "a", "c", "k", "a", "g", "e">>,
      <<"c", "o", "l", "l", "e", "c", "t", "i", "o", "n">>,
      <<"g", "r", "a", "f", "f", "i", "t", "i", " ", "b", "o", "x">>>>

_CASE_EXCLUDES ==
    <<<<"c", "a", "s", "e", " ", "h", "a", "r", "d", "e", "n", "e", "d">>,
      <<"c", "a", "s", "e", "-", "h", "a", "r", "d", "e", "n", "e", "d">>,
      <<"c", "a", "s", "e", "h", "a", "r", "d", "e", "n", "e", "d">>>>

\* classify_item without the exclusion patterns
classify_item_NoExcludes(csfloat_id) ==
    LET name == Lower(csfloat_id)
    IN IF Contains(name, <<"s", "t", "i", "c", "k", "e", "r">>) THEN "sticker"
       ELSE IF \E j \in 1..Len(_CASE_KEYWORDS) : SearchWord(_CASE_KEYWORDS[j], name)
            THEN "case"
       ELSE "weapon"

classify_item(csfloat_id) ==
    LET name == Lower(csfloat_id)
    IN IF Contains(name, <<"s", "t", "i", "c", "k", "e", "r">>) THEN "sticker"
       ELSE IF /\ ~\E j \in 1..Len(_CASE_EXCLUDES) : SearchWord(_CASE_EXCLUDES[j], name)
               /\ \E j \in 1..Len(_CASE_KEYWORDS) : SearchWord(_CASE_KEYWORDS[j], name)
            THEN "case"
       ELSE "weapon"

Categories == {"sticker", "weapon", "case"}

\* The names classify_item is applied to: the words and separators of item
\* names, joined into names of up to MaxParts words, the names of the
\* model's items, and the empty name (csfloat_id or "").
MaxParts == 2
Pieces ==
    {<<"C", "a", "s", "e">>,
     <<"C", "A", "S", "E">>,
     <<"H", "a", "r", "d", "e", "n", "e", "d">>,
     <<"S", "t", "i", "c", "k", "e", "r">>,
     <<"S", "T", "I", "C", "K", "E", "R">>,
     <<"C", "a", "p", "s", "u", "l", "e">>,
     <<"P", "a", "c", "k", "a", "g", "e">>,
     <<"S", "o", "u", "v", "e", "n", "i", "r">>,
     <<"C", "o", "l", "l", "e", "c", "t", "i", "o", "n">>,
     <<"G", "r", "a", "f", "f", "i", "t", "i">>,
     <<"B", "o", "x">>,
     <<"C", "l", "u", "t", "c", "h">>,
     <<"s">>,
     <<"A", "K">>}
Separators ==
    {<<>>, <<" ">>, <<"-">>, <<" ", "|", " ">>}

RECURSIVE NamesOf(_)
NamesOf(n) ==
    IF n = 1 THEN Pieces
    ELSE {a \o sep \o w : a \in NamesOf(n - 1), sep \in Separators, w \in Pieces}

ClassifyNames ==
    UNION {NamesOf(n) : n \in 1..MaxParts}
        \cup {ItemNames[i] : i \in Items} \cup {<<>>}

\* split_by_category: classify_item(r.get("csfloat_id")) of one row
Classify ==
    /\ category = NotClassified
    /\ category' = classify_item(item_name)
    /\ UNCHANGED <<hourly_prices, hourly_quantity, alerts, run_result, now, metric, snap,
                   pol_in, pol_out, current_prices, flush, item_name, detected>>

\* the category of each item of the model
CategoryOf == [i \in Items |-> classify_item(ItemNames[i])]

-----------------------------------------------------------------------------
(* Ranking: the aggregation stages shared by top_changes_snapshot.py and
   top_changes_current_day.py *)

\* TOP_LIMIT / LIMIT, the length of a stored list (50 by default in the
\* source; scaled to the item count of the model)
TOP_LIMIT == 2

\* a day's window [start, end): day_window_utc / day_window
WindowOf(day) == [start |-> day * HOURS_PER_DAY, end |-> day * HOURS_PER_DAY + HOURS_PER_DAY]

\* {"$abs": "$changes.pct_change"} if metric == "pct" else {"$abs": "$changes.abs_change"}
ScoreOf(ch, m) == IF m = "pct" THEN AbsVal(ch.pct_change) ELSE AbsVal(ch.abs_change)

\* $match on the window, $unwind of changes, $addFields score; an unwound
\* null element has no fields (they read as null)
Unwound(a, start, end, m) ==
    {[csfloat_id |-> k[1], hour |-> k[2], field |-> a[k][j].field,
      prev |-> a[k][j].prev, cur |-> a[k][j].cur,
      abs_change |-> a[k][j].abs_change, pct_change |-> a[k][j].pct_change,
      score |-> ScoreOf(a[k][j], m)] :
        k \in {x \in DOMAIN a : x[2] >= start /\ x[2] < end}, j \in 1..2}

\* an order of the scores in which null sorts above numbers
ScoreLt_NullHigh(x, y) == (IsNum(x) /\ IsNull(y)) \/ (IsNum(x) /\ IsNum(y) /\ NumLt(x, y))

\* the order of {"$sort": {"score": -1, "hour": -1}}; null sorts below numbers
ScoreLt(x, y) == (IsNull(x) /\ IsNum(y)) \/ (IsNum(x) /\ IsNum(y) /\ NumLt(x, y))
ScoreEq(x, y) == (IsNull(x) /\ IsNull(y)) \/ (IsNum(x) /\ IsNum(y) /\ NumEq(x, y))
Before(e, f) ==
    \/ ScoreLt(f.score, e.score)
    \/ ScoreEq(e.score, f.score) /\ e.hour > f.hour

\* $first over a group that is in no particular order
FirstOf_Unsorted(G) == G

\* the rows $first may take from a sorted group: no row sorts before them
FirstOf(G) == {e \in G : \A f \in G : ~Before(f, e)}

\* $sort then $group by (csfloat_id, field) with $first: every outcome
ByItemField(E) ==
    LET firsts == UNION {FirstOf({f \in E : f.csfloat_id = e.csfloat_id /\ f.field = e.field}) :
                            e \in E}
    IN {S \in SUBSET firsts :
           \A e \in E : Cardinality({f \in S : f.csfloat_id = e.csfloat_id
                                                /\ f.field = e.field}) = 1}

\* no grouping by csfloat_id: the rows pass through
ByItem_Ungrouped(E) == {E}

\* $sort then $group by csfloat_id with $first: every outcome
ByItem(E) ==
    LET firsts == UNION {FirstOf({f \in E : f.csfloat_id = e.csfloat_id}) : e \in E}
    IN {S \in SUBSET firsts :
           \A e \in E : Cardinality({f \in S : f.csfloat_id = e.csfloat_id}) = 1}

\* the rows in any order (the final $sort left out)
Sorted_AnyOrder(S) ==
    {q \in [1..Cardinality(S) -> S] : \A e \in S : \E j \in 1..Cardinality(S) : q[j] = e}

\* the final $sort: every order of the rows the sort keys allow
Sorted(S) ==
    {q \in [1..Cardinality(S) -> S] :
        /\ \A e \in S : \E j \in 1..Cardinality(S) : q[j] = e
        /\ \A j \in 1..(Cardinality(S) - 1) : ~Before(q[j + 1], q[j])}

\* $limit
Limit(q, n) == IF Len(q) <= n THEN q ELSE SubSeq(q, 1, n)

-----------------------------------------------------------------------------
(* top_changes_snapshot.py *)

COLL_PRICE == "top_changes_price_daily"
COLL_QUANT == "top_changes_quantity_daily"
COLL_ANY == "top_changes_any_daily"

\* the result lists make_pipeline(start, end, field_mode, metric, limit) can give
make_pipeline(a, start, end, field_mode, m, limit) ==
    LET all == Unwound(a, start, end, m)
        sel == IF field_mode \in {"price", "quantity"}
               THEN {e \in all : e.field = field_mode} ELSE all
        grouped == IF field_mode = "any"
                   THEN UNION {ByItem(S) : S \in ByItemField(sel)}
                   ELSE ByItemField(sel)
    IN {Limit(q, limit) : q \in UNION {Sorted(S) : S \in grouped}}

\* run_and_write that pushes the rows onto the items of an existing document
run_and_write_Push(s, a, day, field_mode, coll, m, t) ==
    LET w == WindowOf(day)
    IN {[k \in DOMAIN s \cup {<<coll, w.start>>} |->
            IF k = <<coll, w.start>>
            THEN [snapshot_date |-> w.start, window |-> w, metric |-> m,
                  limit |-> TOP_LIMIT, generated_at |-> t,
                  field_mode |-> field_mode,
                  items |-> IF k \in DOMAIN s THEN s[k].items \o rows ELSE rows]
            ELSE s[k]] :
          rows \in make_pipeline(a, w.start, w.end, field_mode, m, TOP_LIMIT)}

\* run_and_write: the documents replace_one(upsert) can leave under snapshot_date
run_and_write(s, a, day, field_mode, coll, m, t) ==
    LET w == WindowOf(day)
    IN {[k \in DOMAIN s \cup {<<coll, w.start>>} |->
            IF k = <<coll, w.start>>
            THEN [snapshot_date |-> w.start, window |-> w, metric |-> m,
                  limit |-> TOP_LIMIT, generated_at |-> t,
                  field_mode |-> field_mode, items |-> rows]
            ELSE s[k]] :
          rows \in make_pipeline(a, w.start, w.end, field_mode, m, TOP_LIMIT)}

\* snapshot_for_day that leaves a day alone once its first document exists
snapshot_for_day_SkipDone(s, a, day, m, t) ==
    IF <<COLL_PRICE, WindowOf(day).start>> \in DOMAIN s THEN {s}
    ELSE UNION {UNION {run_and_write(s2, a, day, "any", COLL_ANY, m, t) :
                         s2 \in run_and_write(s1, a, day, "quantity", COLL_QUANT, m, t)} :
                  s1 \in run_and_write(s, a, day, "price", COLL_PRICE, m, t)}

\* snapshot_for_day: price, then quantity, then any
snapshot_for_day(s, a, day, m, t) ==
    UNION {UNION {run_and_write(s2, a, day, "any", COLL_ANY, m, t) :
                    s2 \in run_and_write(s1, a, day, "quantity", COLL_QUANT, m, t)} :
             s1 \in run_and_write(s, a, day, "price", COLL_PRICE, m, t)}

RECURSIVE snapshot_days(_, _, _, _, _)
\* for d in days: snapshot_for_day(client, d)
snapshot_days(s, a, days, m, t) ==
    IF days = <<>> THEN {s}
    ELSE UNION {snapshot_days(s1, a, Tail(days), m, t) :
                  s1 \in snapshot_for_day(s, a, Head(days), m, t)}

\* the days a command line may name
ArgDays == {0, 1}
DayOf(t) == t \div HOURS_PER_DAY

\* an optional value: <<>> when absent, <<x>> when given
Opt(S) == {<<>>} \cup {<<x>> : x \in S}

\* parse_args(): --date, --from, --to
SnapshotArgs == [date : Opt(ArgDays), date_from : Opt(ArgDays), date_to : Opt(ArgDays)]

\* main() leaves with SystemExit before it connects
ArgsRejected(args) ==
    \/ args.date # <<>> /\ (args.date_from # <<>> \/ args.date_to # <<>>)
    \/ /\ args.date = <<>> /\ args.date_from # <<>> /\ args.date_to # <<>>
       /\ args.date_to[1] < args.date_from[1]

\* the list of days main() builds
DaysOf(args, t) ==
    IF args.date # <<>> THEN <<args.date[1]>>
    ELSE IF args.date_from # <<>> /\ args.date_to # <<>>
    THEN [j \in 1..(args.date_to[1] - args.date_from[1] + 1) |-> args.date_from[1] + j - 1]
    ELSE <<DayOf(t) - 1>>

\* the lists of days main() can build at time t
DayLists(t) == {DaysOf(args, t) : args \in {x \in SnapshotArgs : ~ArgsRejected(x)}}

\* main() over the list `days`, to completion
SnapshotRun(days) ==
    /\ snap' \in snapshot_days(snap, alerts, days, metric, now)
    /\ UNCHANGED <<hourly_prices, hourly_quantity, alerts, run_result, now, metric,
                   pol_in, pol_out,
                   current_prices, flush, item_name, category, detected>>

\* main(): one run over the days the arguments name
SnapshotMain == \E days \in DayLists(now) : SnapshotRun(days)

RECURSIVE snapshot_writes(_, _, _, _, _, _)
\* the collections after the first n replace_one calls of a run over `days`
\* (three per day: price, quantity, any)
snapshot_writes(s, a, days, m, t, n) ==
    IF n = 0 \/ days = <<>> THEN {s}
    ELSE IF n >= 3
    THEN UNION {snapshot_writes(s1, a, Tail(days), m, t, n - 3) :
                  s1 \in snapshot_for_day(s, a, Head(days), m, t)}
    ELSE IF n = 1 THEN run_and_write(s, a, Head(days), "price", COLL_PRICE, m, t)
    ELSE UNION {run_and_write(s1, a, Head(days), "quantity", COLL_QUANT, m, t) :
                  s1 \in run_and_write(s, a, Head(days), "price", COLL_PRICE, m, t)}

\* main() over `days`, ended after n writes by an exception of aggregate or
\* replace_one (maxTimeMS, the connection) or by the end of the process
SnapshotAbortedAt(days, n) ==
    /\ snap' \in snapshot_writes(snap, alerts, days, metric, now, n)
    /\ UNCHANGED <<hourly_prices, hourly_quantity, alerts, run_result, now, metric,
                   pol_in, pol_out,
                   current_prices, flush, item_name, category, detected>>

SnapshotAborted ==
    \E days \in DayLists(now) : \E n \in 1..(3 * Len(days) - 1) : SnapshotAbortedAt(days, n)

-----------------------------------------------------------------------------
(* top_changes_current_day.py *)

COLL_STICKERS == "top_stickers_daily"
COLL_WEAPONS == "top_weapons_daily"
COLL_CASES == "top_cases_daily"
col_map == [sticker |-> COLL_STICKERS, weapon |-> COLL_WEAPONS, case |-> COLL_CASES]

\* the limit main() hands to the three pipelines (5000 in the source; scaled
\* to the item count of the model, which has three items)
PIPELINE_LIMIT == 2

pipeline_price(a, start, end, m, limit) ==
    LET sel == {e \in Unwound(a, start, end, m) : e.field = "price"}
    IN {Limit(q, limit) : q \in UNION {Sorted(S) : S \in ByItem(sel)}}

pipeline_quantity(a, start, end, m, limit) ==
    LET sel == {e \in Unwound(a, start, end, m) : e.field = "quantity"}
    IN {Limit(q, limit) : q \in UNION {Sorted(S) : S \in ByItem(sel)}}

pipeline_any(a, start, end, m, limit) ==
    LET grouped == UNION {ByItem(S) : S \in ByItemField(Unwound(a, start, end, m))}
    IN {Limit(q, limit) : q \in UNION {Sorted(S) : S \in grouped}}

count_alerts_in_window(a, start, end) ==
    Cardinality({k \in DOMAIN a : k[2] >= start /\ k[2] < end})

\* split_by_category(rows)[cat]
split_by_category(rows, cat) ==
    SelectSeq(rows, LAMBDA r : CategoryOf[r.csfloat_id] = cat)

\* SNAPSHOT_DATE: unset (<<>>) or a day (<<d>>)
SnapshotDates == Opt(ArgDays)

\* the window main() settles on without ever falling back
RequestedWindow(a, target_day, SNAPSHOT_DATE, DISABLE_FALLBACK) == WindowOf(target_day)

\* the window main() settles on when it falls back without counting the day
\* before
ChosenWindow_Uncounted(a, target_day, SNAPSHOT_DATE, DISABLE_FALLBACK) ==
    LET w == WindowOf(target_day)
        y == WindowOf(target_day - 1)
    IN IF /\ SNAPSHOT_DATE = <<>>
          /\ ~DISABLE_FALLBACK
          /\ count_alerts_in_window(a, w.start, w.end) = 0
       THEN y ELSE w

\* the window main() settles on when SNAPSHOT_DATE and DISABLE_FALLBACK do
\* not keep it from falling back
ChosenWindow_Unconditional(a, target_day, SNAPSHOT_DATE, DISABLE_FALLBACK) ==
    LET w == WindowOf(target_day)
        y == WindowOf(target_day - 1)
    IN IF /\ count_alerts_in_window(a, w.start, w.end) = 0
          /\ count_alerts_in_window(a, y.start, y.end) > 0
       THEN y ELSE w

\* the window main() settles on: the target day's, or the day before it when
\* the target day has no alerts and the day before has some
ChosenWindow(a, target_day, SNAPSHOT_DATE, DISABLE_FALLBACK) ==
    LET w == WindowOf(target_day)
        y == WindowOf(target_day - 1)
    IN IF /\ SNAPSHOT_DATE = <<>>
          /\ ~DISABLE_FALLBACK
          /\ count_alerts_in_window(a, w.start, w.end) = 0
          /\ count_alerts_in_window(a, y.start, y.end) > 0
       THEN y ELSE w

\* a category document dated by the day it is generated on
CategoryDoc_Today(w, cat, price_rows, qty_rows, any_rows, m, t) ==
    [snapshot_date |-> DayOf(t) * HOURS_PER_DAY, window |-> w, metric |-> m,
     limit |-> TOP_LIMIT, generated_at |-> t, category |-> cat,
     top_price |-> Limit(split_by_category(price_rows, cat), TOP_LIMIT),
     top_quantity |-> Limit(split_by_category(qty_rows, cat), TOP_LIMIT),
     top_any |-> Limit(split_by_category(any_rows, cat), TOP_LIMIT)]

\* the category document main() builds from the three result lists
CategoryDoc(w, cat, price_rows, qty_rows, any_rows, m, t) ==
    [snapshot_date |-> w.start, window |-> w, metric |-> m, limit |-> TOP_LIMIT,
     generated_at |-> t, category |-> cat,
     top_price |-> Limit(split_by_category(price_rows, cat), TOP_LIMIT),
     top_quantity |-> Limit(split_by_category(qty_rows, cat), TOP_LIMIT),
     top_any |-> Limit(split_by_category(any_rows, cat), TOP_LIMIT)]

\* the day main() targets: the override, else today
TargetDay(SNAPSHOT_DATE, t) == IF SNAPSHOT_DATE # <<>> THEN SNAPSHOT_DATE[1] ELSE DayOf(t)

\* main() from the pipelines on: the three category documents for window w
WriteCategories(w) ==
    LET keys == {<<col_map[cat], w.start>> : cat \in Categories}
    IN /\ \E price_rows \in pipeline_price(alerts, w.start, w.end, metric, PIPELINE_LIMIT),
             qty_rows \in pipeline_quantity(alerts, w.start, w.end, metric, PIPELINE_LIMIT),
             any_rows \in pipeline_any(alerts, w.start, w.end, metric, PIPELINE_LIMIT) :
            snap' = [k \in DOMAIN snap \cup keys |->
                        IF k \in keys
                        THEN CategoryDoc(w, CHOOSE cat \in Categories : col_map[cat] = k[1],
                                         price_rows, qty_rows, any_rows, metric, now)
                        ELSE snap[k]]
       /\ UNCHANGED <<hourly_prices, hourly_quantity, alerts, run_result, now, metric,
                      pol_in, pol_out,
                   current_prices, flush, item_name, category, detected>>

\* main() with the environment SNAPSHOT_DATE, DISABLE_FALLBACK
CurrentDay(SNAPSHOT_DATE, DISABLE_FALLBACK) ==
    WriteCategories(ChosenWindow(alerts, TargetDay(SNAPSHOT_DATE, now),
                                 SNAPSHOT_DATE, DISABLE_FALLBACK))

\* main() under any environment
RunCurrentDay ==
    \E w \in {ChosenWindow(alerts, TargetDay(sd, now), sd, df) :
                 sd \in SnapshotDates, df \in BOOLEAN} :
        WriteCategories(w)

-----------------------------------------------------------------------------
(* The ranking system: the two snapshot scripts over a store of alerts *)

\* the most documents the alerts collection holds
MaxAlerts == 3

\* the periods of the alerts: the last hour of day 0, the first hours of day 1
AlertHours == (HOURS_PER_DAY - 1)..(HOURS_PER_DAY + 1)

\* the row the detector matched for each item of the model; the alerts of an
\* item hold what the detector's $project stores for its row
\*   1  price 100 -> 120, quantity 10 -> 20
\*   2  price 100 -> 150, quantity 20 -> 10
\*   3  price 100 -> 116, no quantity
AlertRows ==
    <<[price_prev |-> Num(100), price_cur |-> Num(120),
       qty_prev |-> Num(10), qty_cur |-> Num(20)],
      [price_prev |-> Num(100), price_cur |-> Num(150),
       qty_prev |-> Num(20), qty_cur |-> Num(10)],
      [price_prev |-> Num(100), price_cur |-> Num(116),
       qty_prev |-> Null, qty_cur |-> Null]>>

AlertStores ==
    {[k \in K |-> ChangesOf(AlertRows[k[1]])] :
        K \in {S \in SUBSET ({i \in Items : Matches(AlertRows[i])} \X AlertHours) :
                 Cardinality(S) <= MaxAlerts}}

InitRank ==
    /\ hourly_prices = EmptyMap
    /\ hourly_quantity = EmptyMap
    /\ alerts \in AlertStores
    /\ run_result = "none"
    /\ now = MaxHour
    /\ metric \in {"pct", "abs"}
    /\ snap = EmptyMap
    /\ pol_in = NoRow
    /\ pol_out = NotEvaluated
    /\ current_prices = EmptyMap
    /\ flush = NoFlush
    /\ item_name = <<>>
    /\ category = NotClassified
    /\ detected = alerts

NextRank == SnapshotMain \/ RunCurrentDay

SpecRank == InitRank /\ [][NextRank]_vars

-----------------------------------------------------------------------------
(* Reruns: the snapshot scripts while the detector keeps adding alerts *)

\* the detector runs of this system: item 1's row at the last hour of day 0,
\* item 2's row at the first hour of day 1
DetectorRuns == {<<1, HOURS_PER_DAY - 1>>, <<2, HOURS_PER_DAY>>}

\* the history map of item i with the buckets of hours h - 1 and h
HistoryOf(i, h, prev, cur) ==
    [x \in {i} |-> [k \in {hour_key(h - 1), hour_key(h)} |->
                       IF k = hour_key(h) THEN cur ELSE prev]]

\* detect_spikes.main() on the history of one item: the row of item r[1] at
\* hour r[2]
DetectItemOf(r) ==
    LET hp == HistoryOf(r[1], r[2], AlertRows[r[1]].price_prev, AlertRows[r[1]].price_cur)
        hq == HistoryOf(r[1], r[2], AlertRows[r[1]].qty_prev, AlertRows[r[1]].qty_cur)
    IN /\ alerts' = AfterRun(alerts, hp, hq)
       /\ detected' = AfterRun(detected, hp, hq)
       /\ run_result' = "completed"
       /\ UNCHANGED <<hourly_prices, hourly_quantity, now, metric, snap, pol_in, pol_out,
                      current_prices, flush, item_name, category>>

DetectItem == \E r \in DetectorRuns : DetectItemOf(r)

InitRerun ==
    /\ hourly_prices = EmptyMap
    /\ hourly_quantity = EmptyMap
    /\ alerts = EmptyMap
    /\ run_result = "none"
    /\ now = MaxHour
    /\ metric = "pct"
    /\ snap = EmptyMap
    /\ pol_in = NoRow
    /\ pol_out = NotEvaluated
    /\ current_prices = EmptyMap
    /\ flush = NoFlush
    /\ item_name = <<>>
    /\ category = NotClassified
    /\ detected = alerts

NextRerun == DetectItem \/ SnapshotMain \/ SnapshotAborted \/ RunCurrentDay

SpecRerun == InitRerun /\ [][NextRerun]_vars

-----------------------------------------------------------------------------
(* cleanup_old_alerts.py, beside the detector and the two snapshot scripts *)

\* timedelta(hours=24)
RETENTION_HOURS == 24

\* a cutoff at the clock itself
BeforeCutoff_Now(hour, t, late) == hour < t

\* {"hour": {"$lt": cutoff}} with cutoff = now - 24 hours: t is the hour of
\* the clock, `late` says that the clock is past the start of that hour (a
\* period is the start of an hour)
BeforeCutoff(hour, t, late) ==
    IF late THEN hour <= t - RETENTION_HOURS ELSE hour < t - RETENTION_HOURS

\* the collection after col.delete_many(...)
delete_many(a, t, late) ==
    [k \in {x \in DOMAIN a : ~BeforeCutoff(x[2], t, late)} |-> a[k]]

\* cleanup_old_alerts()
Cleanup ==
    \E late \in BOOLEAN :
        /\ alerts' = delete_many(alerts, now, late)
        /\ UNCHANGED <<hourly_prices, hourly_quantity, run_result, now, metric, snap,
                       pol_in, pol_out, current_prices, flush, item_name, category,
                       detected>>

\* the detector runs of this system: item 1's row at the first hour of day 0
\* (an item whose latest bucket is that hour), item 3's row at the last hour
\* of day 0, item 2's row at the first hour of day 1
CleanupRuns == {<<1, 0>>, <<3, HOURS_PER_DAY - 1>>, <<2, HOURS_PER_DAY>>}

DetectStored == \E r \in CleanupRuns : DetectItemOf(r)

\* top_changes_snapshot.main() without arguments: yesterday
SnapshotYesterday == SnapshotRun(DaysOf([date |-> <<>>, date_from |-> <<>>, date_to |-> <<>>], now))

\* top_changes_current_day.main() with neither SNAPSHOT_DATE nor
\* DISABLE_FALLBACK set
CurrentDayDefault == CurrentDay(<<>>, FALSE)

InitCleanup ==
    /\ hourly_prices = EmptyMap
    /\ hourly_quantity = EmptyMap
    /\ alerts = EmptyMap
    /\ run_result = "none"
    /\ now = HOURS_PER_DAY
    /\ metric = "pct"
    /\ snap = EmptyMap
    /\ pol_in = NoRow
    /\ pol_out = NotEvaluated
    /\ current_prices = EmptyMap
    /\ flush = NoFlush
    /\ item_name = <<>>
    /\ category = NotClassified
    /\ detected = alerts

NextCleanup == DetectStored \/ Cleanup \/ SnapshotYesterday \/ CurrentDayDefault \/ Tick

SpecCleanup == InitCleanup /\ [][NextCleanup]_vars

-----------------------------------------------------------------------------
(* Claims about the ranking *)

SnapshotColls == {COLL_PRICE, COLL_QUANT, COLL_ANY}
CategoryColls == {col_map[cat] : cat \in Categories}

\* the ranked lists of the document stored under key k
ListsOf(k) ==
    IF k[1] \in SnapshotColls THEN {snap[k].items}
    ELSE {snap[k].top_price, snap[k].top_quantity, snap[k].top_any}

\* C7: every ranked list written to a snapshot (modes price, quantity and
\* any, per-mode and per-category documents) has at most one entry per item.
C7_OnePerItem ==
    \A k \in DOMAIN snap :
        \A q \in ListsOf(k) :
            \A i \in 1..Len(q), j \in 1..Len(q) :
                i # j => q[i].csfloat_id # q[j].csfloat_id

\* an any-mode list and a category's any list hold two items, one of which
\* has change entries in two periods of the window and in both fields
C7_Witness ==
    \E k \in DOMAIN snap, c \in DOMAIN snap :
        /\ k[1] = COLL_ANY /\ Len(snap[k].items) = 2
        /\ c[1] = COLL_WEAPONS /\ Len(snap[c].top_any) = 2
        /\ \E i \in Items :
              Cardinality({x \in DOMAIN alerts :
                              /\ x[1] = i
                              /\ x[2] >= snap[k].window.start
                              /\ x[2] < snap[k].window.end
                              /\ x[2] >= snap[c].window.start
                              /\ x[2] < snap[c].window.end
                              /\ Cardinality(Entries(alerts[x])) = 2}) = 2

\* C8: in every ranked list written to a snapshot, adjacent entries (a, b)
\* have score(a) >= score(b), and period(a) >= period(b) when the scores
\* are equal.
C8_Sorted ==
    \A k \in DOMAIN snap :
        \A q \in ListsOf(k) :
            \A j \in 1..(Len(q) - 1) :
                /\ IsNum(q[j].score) /\ IsNum(q[j + 1].score)
                /\ NumGe(q[j].score, q[j + 1].score)
                /\ NumEq(q[j].score, q[j + 1].score) => q[j].hour >= q[j + 1].hour

\* a category list and a per-mode list each hold two entries of equal score
\* and different periods
C8_Witness ==
    \E k \in DOMAIN snap, c \in DOMAIN snap :
        /\ k[1] \in SnapshotColls /\ c[1] \in CategoryColls
        /\ \E q \in ListsOf(k) :
              /\ Len(q) = 2 /\ NumEq(q[1].score, q[2].score) /\ q[1].hour > q[2].hour
        /\ \E q \in ListsOf(c) :
              /\ Len(q) = 2 /\ NumEq(q[1].score, q[2].score) /\ q[1].hour > q[2].hour

\* the number of rows of a window: a limit that truncates nothing
NoLimit(w) == Cardinality(Unwound(alerts, w.start, w.end, metric)) + 1

\* C9: in the categorized snapshot, every stored list is the first `limit`
\* entries of its category's part of the full (untruncated) deduplicated and
\* sorted ranked set of its mode.
C9_CategoryTop ==
    \A k \in DOMAIN snap :
        k[1] \in CategoryColls =>
            LET d == snap[k]
                w == d.window
                top(q) == Limit(split_by_category(q, d.category), TOP_LIMIT)
            IN /\ d.top_price \in
                     {top(q) : q \in pipeline_price(alerts, w.start, w.end, metric, NoLimit(w))}
               /\ d.top_quantity \in
                     {top(q) : q \in pipeline_quantity(alerts, w.start, w.end, metric, NoLimit(w))}
               /\ d.top_any \in
                     {top(q) : q \in pipeline_any(alerts, w.start, w.end, metric, NoLimit(w))}

\* the requested day of a run at `now` has no alerts and the day before has
Today == WindowOf(DayOf(now))
Yesterday == WindowOf(DayOf(now) - 1)
FallbackCase ==
    /\ count_alerts_in_window(alerts, Today.start, Today.end) = 0
    /\ count_alerts_in_window(alerts, Yesterday.start, Yesterday.end) > 0

\* C10: a run without a day override and with fallback enabled, on an empty
\* requested day and a non-empty previous day, writes every one of its
\* documents with the previous day's window, their lists ranked from the
\* previous day's records.
C10_Fallback ==
    [][(FallbackCase /\ CurrentDay(<<>>, FALSE)) =>
        /\ \A k \in DOMAIN snap' :
              (k \notin DOMAIN snap \/ snap'[k] # snap[k]) => snap'[k].window = Yesterday
        /\ \A cat \in Categories :
              LET k == <<col_map[cat], Yesterday.start>>
                  top(q) == Limit(split_by_category(q, cat), TOP_LIMIT)
              IN /\ k \in DOMAIN snap'
                 /\ snap'[k].window = Yesterday
                 /\ snap'[k].top_price \in
                       {top(q) : q \in pipeline_price(alerts, Yesterday.start, Yesterday.end,
                                                      metric, PIPELINE_LIMIT)}
                 /\ snap'[k].top_quantity \in
                       {top(q) : q \in pipeline_quantity(alerts, Yesterday.start, Yesterday.end,
                                                         metric, PIPELINE_LIMIT)}
                 /\ snap'[k].top_any \in
                       {top(q) : q \in pipeline_any(alerts, Yesterday.start, Yesterday.end,
                                                    metric, PIPELINE_LIMIT)}]_vars

\* in the fallback case the category documents of the previous day have been
\* written, with entries, and none exists for the requested day
C10_Witness ==
    /\ FallbackCase
    /\ \A cat \in Categories :
          /\ <<col_map[cat], Yesterday.start>> \in DOMAIN snap
          /\ snap[<<col_map[cat], Yesterday.start>>].window = Yesterday
          /\ <<col_map[cat], Today.start>> \notin DOMAIN snap
    /\ Len(snap[<<COLL_WEAPONS, Yesterday.start>>].top_any) > 0

\* the lists of a category document are all empty
EmptyLists(d) == d.top_price = <<>> /\ d.top_quantity = <<>> /\ d.top_any = <<>>

\* neither the requested day nor the day before it holds an alert
BothEmpty(day) ==
    /\ count_alerts_in_window(alerts, WindowOf(day).start, WindowOf(day).end) = 0
    /\ count_alerts_in_window(alerts, WindowOf(day - 1).start, WindowOf(day - 1).end) = 0

\* C11: when neither the requested day's window nor the previous day's holds
\* a change record, a run (under any environment) still writes one document
\* per category for the requested day, each with empty ranked lists.
C11_EmptyDocs ==
    [][\A sd \in SnapshotDates, df \in BOOLEAN :
          (BothEmpty(TargetDay(sd, now)) /\ CurrentDay(sd, df)) =>
              \A cat \in Categories :
                  LET k == <<col_map[cat], WindowOf(TargetDay(sd, now)).start>>
                  IN /\ k \in DOMAIN snap'
                     /\ snap'[k].category = cat
                     /\ snap'[k].window = WindowOf(TargetDay(sd, now))
                     /\ EmptyLists(snap'[k])]_vars

\* today and yesterday hold no alert and today's three category documents
\* are there, with empty lists
C11_Witness ==
    /\ BothEmpty(DayOf(now))
    /\ \A cat \in Categories :
          /\ <<col_map[cat], Today.start>> \in DOMAIN snap
          /\ EmptyLists(snap[<<col_map[cat], Today.start>>])

\* the field_mode a per-mode collection is written with
ModeOf(coll) == IF coll = COLL_PRICE THEN "price"
                ELSE IF coll = COLL_QUANT THEN "quantity" ELSE "any"

\* the documents a run at this moment can produce for key k = <<collection,
\* snapshot_date>>, from the alerts of that day alone
FreshDocs(k) ==
    LET w == [start |-> k[2], end |-> k[2] + HOURS_PER_DAY]
    IN IF k[1] \in SnapshotColls
       THEN {[snapshot_date |-> k[2], window |-> w, metric |-> metric,
              limit |-> TOP_LIMIT, generated_at |-> now,
              field_mode |-> ModeOf(k[1]), items |-> rows] :
                rows \in make_pipeline(alerts, w.start, w.end, ModeOf(k[1]), metric, TOP_LIMIT)}
       ELSE LET cat == CHOOSE c \in Categories : col_map[c] = k[1]
                top(q) == Limit(split_by_category(q, cat), TOP_LIMIT)
            IN {[snapshot_date |-> k[2], window |-> w, metric |-> metric,
                 limit |-> TOP_LIMIT, generated_at |-> now, category |-> cat,
                 top_price |-> top(pr), top_quantity |-> top(qr), top_any |-> top(ar)] :
                   pr \in pipeline_price(alerts, w.start, w.end, metric, PIPELINE_LIMIT),
                   qr \in pipeline_quantity(alerts, w.start, w.end, metric, PIPELINE_LIMIT),
                   ar \in pipeline_any(alerts, w.start, w.end, metric, PIPELINE_LIMIT)}

\* the keys a completed snapshot run over `days` writes
RunKeys(days) ==
    {<<coll, WindowOf(days[j]).start>> : coll \in SnapshotColls, j \in 1..Len(days)}

\* C12: whatever a collection held before, after a completed run every
\* document of the days the run covers is exactly an output of that run
\* (one document per collection and day, nothing of an earlier document
\* kept), and a step of either script changes a document only into such an
\* output.
C12_ReplaceOnRerun ==
    [][/\ \A days \in DayLists(now) :
             SnapshotRun(days) =>
                 \A k \in RunKeys(days) : k \in DOMAIN snap' /\ snap'[k] \in FreshDocs(k)
       /\ RunCurrentDay =>
             \E d \in {DayOf(now), DayOf(now) - 1} \cup ArgDays :
                 \A cat \in Categories :
                     LET k == <<col_map[cat], WindowOf(d).start>>
                     IN k \in DOMAIN snap' /\ snap'[k] \in FreshDocs(k)
       /\ \A k \in DOMAIN snap' :
             (k \notin DOMAIN snap \/ snap'[k] # snap[k]) => snap'[k] \in FreshDocs(k)]_vars

\* a completed run wrote day 1 while it had no alerts, an alert arrived, and a
\* later run has replaced the price document of day 1 (the `any` document of
\* the earlier run is still there); the category documents of day 1 hold the
\* alert too
C12_Witness ==
    LET d == WindowOf(1).start
    IN /\ <<COLL_ANY, d>> \in DOMAIN snap /\ snap[<<COLL_ANY, d>>].items = <<>>
       /\ <<COLL_PRICE, d>> \in DOMAIN snap /\ Len(snap[<<COLL_PRICE, d>>].items) = 1
       /\ <<COLL_WEAPONS, d>> \in DOMAIN snap /\ Len(snap[<<COLL_WEAPONS, d>>].top_any) = 1

\* C14: when a snapshot run is aborted between two writes, every document is
\* either what it was before or entirely an output of the run, and running
\* the same run again to completion leaves the collections exactly as a
\* single uninterrupted run would have.
C14_AbortResume ==
    [][\A days \in DayLists(now) : \A n \in 1..(3 * Len(days) - 1) :
          (alerts' = alerts /\ SnapshotAbortedAt(days, n)) =>
              /\ \A k \in DOMAIN snap' :
                    \/ k \in DOMAIN snap /\ snap'[k] = snap[k]
                    \/ k \in RunKeys(days) /\ snap'[k] \in FreshDocs(k)
              /\ snapshot_days(snap', alerts, days, metric, now)
                    = snapshot_days(snap, alerts, days, metric, now)]_vars

\* a run over day 0, which holds an alert, was aborted after its second
\* write: the price and quantity documents are there, the `any` document is
\* not
C14_Witness ==
    LET d == WindowOf(0).start
    IN /\ <<COLL_PRICE, d>> \in DOMAIN snap /\ Len(snap[<<COLL_PRICE, d>>].items) = 1
       /\ <<COLL_QUANT, d>> \in DOMAIN snap
       /\ <<COLL_ANY, d>> \notin DOMAIN snap

-----------------------------------------------------------------------------
(* Threshold policy *)

Evaluated == pol_out # NotEvaluated /\ pol_out.state = "done"

\* |cur - prev|
Move(prev, cur) == AbsVal(Subtract(cur, prev))

\* the values whose move from prev is at least the move of cur
AtLeastAsFar(vals, prev, cur) ==
    {c \in vals : IsNum(c) /\ NumGe(Move(prev, c), Move(prev, cur))}

\* C16: for a fixed previous value, a field that qualifies with the current
\* value also qualifies with every current value whose distance from the
\* previous value is at least as large.
C16_Monotone ==
    Evaluated =>
        /\ pol_out.price_matches =>
              \A c \in AtLeastAsFar(PolicyPrices, pol_in.price_prev, pol_in.price_cur) :
                  EvalRow([pol_in EXCEPT !.price_cur = c]).price_matches
        /\ pol_out.qty_matches =>
              \A c \in AtLeastAsFar(PolicyQtys, pol_in.qty_prev, pol_in.qty_cur) :
                  EvalRow([pol_in EXCEPT !.qty_cur = c]).qty_matches

\* a quantity rise that qualified, with a fall of the same size among the
\* values compared
C16_Witness ==
    /\ Evaluated
    /\ pol_out.qty_matches
    /\ NumLt(pol_in.qty_prev, pol_in.qty_cur)
    /\ \E c \in AtLeastAsFar(PolicyQtys, pol_in.qty_prev, pol_in.qty_cur) :
          NumLt(c, pol_in.qty_prev)

\* the move of an integer transition, as an integer
Delta(prev, cur) == AbsInt(cur.n - prev.n)

\* delta / prev >= pct on integers, without a division
ShareAtLeast(delta, prev, pct) == delta * pct.d >= pct.n * prev

\* C19: a quantity transition with both values present and previous # 0
\* qualifies exactly when |current - previous| >= MIN_QTY_DELTA and
\* |current - previous| / previous >= QTY_PCT, both bounds inclusive.
C19_QuantityRule ==
    (Evaluated /\ IsNum(pol_in.qty_prev) /\ IsNum(pol_in.qty_cur)
       /\ ~IsZero(pol_in.qty_prev)) =>
        LET delta == Delta(pol_in.qty_prev, pol_in.qty_cur)
        IN pol_out.qty_matches <=>
              (delta >= MIN_QTY_DELTA /\ ShareAtLeast(delta, pol_in.qty_prev.n, QTY_PCT))

\* a fall that meets both bounds with equality (the floor and the percent
\* threshold) has been evaluated and qualified
C19_Witness ==
    /\ Evaluated
    /\ IsNum(pol_in.qty_prev) /\ IsNum(pol_in.qty_cur) /\ ~IsZero(pol_in.qty_prev)
    /\ Delta(pol_in.qty_prev, pol_in.qty_cur) = MIN_QTY_DELTA
    /\ Delta(pol_in.qty_prev, pol_in.qty_cur) * QTY_PCT.d = QTY_PCT.n * pol_in.qty_prev.n
    /\ pol_out.qty_matches

PriceEntries == {e \in Entries(pol_out.changes) : e.field = "price"}

\* C20: a price transition with both values present and previous > 0
\* qualifies exactly when |current - previous| / previous >= PRICE_PCT
\* (inclusive, rises and falls alike); with previous = 0 or a missing value
\* the price rule does not match and no price entry is produced.
C20_PriceRule ==
    Evaluated =>
        IF IsNum(pol_in.price_prev) /\ IsNum(pol_in.price_cur) /\ ~IsZero(pol_in.price_prev)
        THEN pol_out.price_matches <=>
                ShareAtLeast(Delta(pol_in.price_prev, pol_in.price_cur),
                             pol_in.price_prev.n, PRICE_PCT)
        ELSE ~pol_out.price_matches /\ PriceEntries = {}

\* a price rise of exactly the percent threshold has been evaluated and
\* qualified, and its entry is in the output
C20_Witness ==
    /\ Evaluated
    /\ IsNum(pol_in.price_prev) /\ IsNum(pol_in.price_cur) /\ ~IsZero(pol_in.price_prev)
    /\ NumLt(pol_in.price_prev, pol_in.price_cur)
    /\ Delta(pol_in.price_prev, pol_in.price_cur) * PRICE_PCT.d
          = PRICE_PCT.n * pol_in.price_prev.n
    /\ pol_out.price_matches
    /\ PriceEntries # {}

-----------------------------------------------------------------------------
(* Null metric values *)

\* the value of a row for metric m
MetricValue(e, m) == IF m = "pct" THEN e.pct_change ELSE e.abs_change

\* C17: no ranked list of a stored document holds a row whose value for the
\* document's metric (pct_change for pct, abs_change for abs) is null.
C17_NoNullMetric ==
    \A k \in DOMAIN snap :
        \A q \in ListsOf(k) :
            \A j \in 1..Len(q) : ~IsNull(MetricValue(q[j], snap[k].metric))

\* an any-mode list and a category's any list were built from a window in
\* which an alert of the item without quantity holds a null element, and
\* both hold that item's row
C17_Witness ==
    \E k \in DOMAIN snap, c \in DOMAIN snap :
        /\ k[1] = COLL_ANY /\ c[1] \in CategoryColls
        /\ \E x \in DOMAIN alerts :
              /\ x[2] >= snap[k].window.start /\ x[2] < snap[k].window.end
              /\ x[2] >= snap[c].window.start /\ x[2] < snap[c].window.end
              /\ \E j \in 1..Len(alerts[x]) : alerts[x][j] = NullChange
              /\ \E j \in 1..Len(snap[k].items) : snap[k].items[j].csfloat_id = x[1]
              /\ \E j \in 1..Len(snap[c].top_any) : snap[c].top_any[j].csfloat_id = x[1]

-----------------------------------------------------------------------------
(* Runs that may not fall back *)

\* only documents of the category collections differ between snap and snap'
OnlyCategoriesWritten ==
    \A k \in DOMAIN snap' :
        k[1] \in SnapshotColls => (k \in DOMAIN snap /\ snap'[k] = snap[k])

\* C18: a run with an explicit SNAPSHOT_DATE, or with DISABLE_FALLBACK set,
\* writes its three category documents for the requested day, each with the
\* requested day's window, whatever the alert counts of that day and of the
\* day before it are (a step is such a run only if it leaves the per-mode
\* collections alone; it then writes as requested or is no such run).
C18_NoFallback ==
    [][\A sd \in SnapshotDates, df \in BOOLEAN :
          LET w == WindowOf(TargetDay(sd, now))
              Requested ==
                  /\ w.end = w.start + HOURS_PER_DAY
                  /\ \A k \in DOMAIN snap' :
                        (k \notin DOMAIN snap \/ snap'[k] # snap[k]) => snap'[k].window = w
                  /\ \A cat \in Categories :
                        /\ <<col_map[cat], w.start>> \in DOMAIN snap'
                        /\ snap'[<<col_map[cat], w.start>>].window = w
          IN (sd # <<>> \/ df) =>
                \/ ~OnlyCategoriesWritten
                \/ Requested
                \/ ~CurrentDay(sd, df)]_vars

\* the requested day holds no alert and the day before holds some, and the
\* category documents are there for the requested day, with its window
C18_Witness ==
    /\ FallbackCase
    /\ \A cat \in Categories :
          /\ <<col_map[cat], Today.start>> \in DOMAIN snap
          /\ snap[<<col_map[cat], Today.start>>].window = Today

-----------------------------------------------------------------------------
(* Classification of names *)

InitClassify ==
    /\ hourly_prices = EmptyMap
    /\ hourly_quantity = EmptyMap
    /\ alerts = EmptyMap
    /\ run_result = "none"
    /\ now = HOURS_PER_DAY - 1
    /\ metric = "pct"
    /\ snap = EmptyMap
    /\ pol_in = NoRow
    /\ pol_out = NotEvaluated
    /\ current_prices = EmptyMap
    /\ flush = NoFlush
    /\ item_name \in ClassifyNames
    /\ category = NotClassified
    /\ detected = alerts

NextClassify == Classify

SpecClassify == InitClassify /\ [][NextClassify]_vars

RECURSIVE Runs(_)
\* a name cut into its maximal runs of word characters and of other
\* characters
Runs(str) ==
    IF str = <<>> THEN <<>>
    ELSE LET rest == Runs(Tail(str))
             c == Head(str)
             w == IsWordChar(c)
         IN IF rest # <<>> /\ rest[1].word = w
            THEN <<[word |-> w, text |-> <<c>> \o rest[1].text]>> \o Tail(rest)
            ELSE <<[word |-> w, text |-> <<c>>]>> \o rest

\* T holds the word lit
HasWord(T, lit) == \E j \in 1..Len(T) : T[j].word /\ T[j].text = lit

\* T holds the word a, then exactly the separator sep, then the word b
HasPhrase(T, a, sep, b) ==
    \E j \in 1..(Len(T) - 2) :
        /\ T[j].word /\ T[j].text = a
        /\ ~T[j + 1].word /\ T[j + 1].text = sep
        /\ T[j + 2].word /\ T[j + 2].text = b

W_sticker == <<"s", "t", "i", "c", "k", "e", "r">>
W_case == <<"c", "a", "s", "e">>
W_hardened == <<"h", "a", "r", "d", "e", "n", "e", "d">>
W_casehardened == <<"c", "a", "s", "e", "h", "a", "r", "d", "e", "n", "e", "d">>
W_capsule == <<"c", "a", "p", "s", "u", "l", "e">>
W_package == <<"p", "a", "c", "k", "a", "g", "e">>
W_souvenir == <<"s", "o", "u", "v", "e", "n", "i", "r">>
W_collection == <<"c", "o", "l", "l", "e", "c", "t", "i", "o", "n">>
W_graffiti == <<"g", "r", "a", "f", "f", "i", "t", "i">>
W_box == <<"b", "o", "x">>
ClutchCase == <<"C", "l", "u", "t", "c", "h", " ", "C", "a", "s", "e">>

\* the ordered rules on the words of a name
RuleCategory(str) ==
    LET T == Runs(Lower(str))
        excluded == \/ HasPhrase(T, W_case, <<" ">>, W_hardened)
                    \/ HasPhrase(T, W_case, <<"-">>, W_hardened)
                    \/ HasWord(T, W_casehardened)
        keyword == \/ HasWord(T, W_case)
                   \/ HasWord(T, W_capsule)
                   \/ HasWord(T, W_package)
                   \/ HasPhrase(T, W_souvenir, <<" ">>, W_package)
                   \/ HasWord(T, W_collection)
                   \/ HasPhrase(T, W_graffiti, <<" ">>, W_box)
    IN IF \E j \in 1..Len(T) : T[j].word /\ Contains(T[j].text, W_sticker) THEN "sticker"
       ELSE IF keyword /\ ~excluded THEN "case"
       ELSE "weapon"

-----------------------------------------------------------------------------
(* Missing values: ingestion of sparse listings, the detector and the clock *)

NextSparse == IngestSparse \/ Detect \/ Tick

SpecSparse == Init /\ [][NextSparse]_vars

\* the previous or the current value of a field of a row is missing
MissingIn(r, f) ==
    IF f = "price" THEN IsNull(r.price_prev) \/ IsNull(r.price_cur)
    ELSE IsNull(r.qty_prev) \/ IsNull(r.qty_cur)

\* the rule of field f on the row's own values of f
RuleOf(r, f) ==
    IF f = "price" THEN PriceMatches(r.price_prev, r.price_cur)
    ELSE QtyMatches(r.qty_prev, r.qty_cur)

OtherField(f) == IF f = "price" THEN "quantity" ELSE "price"

\* some stored value of the time series is malformed
Malformed(hp, hq) ==
    \E i \in DOMAIN hp : \E k \in DOMAIN hp[i] : hp[i][k] = Str \/ hq[i][k] = Str

\* C21: a detector run over a store in which no value is malformed
\* completes, whatever values are missing; for every document it reads, a
\* field with a missing previous or current value gets no change entry, and
\* the document is stored exactly when the other field's rule qualifies on
\* its own values, with that field's entry built from those values.
C21_MissingNoError ==
    [][Detect =>
        LET hp == hourly_prices
            hq == hourly_quantity
        IN /\ ~Malformed(hp, hq) => run_result' = "completed"
           /\ \A i \in Reached(hp, hq) : \A f \in {"price", "quantity"} :
                 LET r == Row(hp, hq, i)
                     g == OtherField(f)
                     k == AlertKey(hp, hq, i)
                 IN MissingIn(r, f) =>
                       /\ \A e \in RunEntries(hp, hq, i) : e.field # f
                       /\ i \in Merged(hp, hq) =>
                             /\ RuleOf(r, g)
                             /\ \A e \in StoredEntries(alerts', k) : e.field # f
                             /\ \E e \in StoredEntries(alerts', k) :
                                   /\ e.field = g
                                   /\ e.prev = (IF g = "price" THEN r.price_prev ELSE r.qty_prev)
                                   /\ e.cur = (IF g = "price" THEN r.price_cur ELSE r.qty_cur)
                       /\ (RuleOf(r, g) /\ run_result' = "completed") => i \in Merged(hp, hq)]_vars

\* a run completed and stored, for an item whose current price is stored as
\* null, a record with the quantity entry alone
C21_Witness ==
    /\ run_result = "completed"
    /\ \E i \in DOMAIN hourly_prices :
          /\ hour_key(now) \in DOMAIN hourly_prices[i]
          /\ hourly_prices[i][hour_key(now)] = Null
          /\ <<i, now>> \in DOMAIN alerts
          /\ \A e \in Entries(alerts[<<i, now>>]) : e.field = "quantity"
          /\ Entries(alerts[<<i, now>>]) # {}

-----------------------------------------------------------------------------
(* The whole engine within one hour: ingestion, the detector and the two
   ranking scripts *)

\* the hour after an ingestion run stored the first values of the time series
InitEngine ==
    /\ hourly_prices = SetHour(EmptyMap, MovingFeed(MaxHour - 1), hour_key(MaxHour - 1), "price")
    /\ hourly_quantity = SetHour(EmptyMap, MovingFeed(MaxHour - 1), hour_key(MaxHour - 1), "qty")
    /\ alerts = EmptyMap
    /\ run_result = "none"
    /\ now = MaxHour
    /\ metric \in {"pct", "abs"}
    /\ snap = EmptyMap
    /\ pol_in = NoRow
    /\ pol_out = NotEvaluated
    /\ current_prices = SetCurrent(EmptyMap, MovingFeed(MaxHour - 1), MaxHour - 1)
    /\ flush = NoFlush
    /\ item_name = <<>>
    /\ category = NotClassified
    /\ detected = alerts

NextEngine == IngestMoving \/ Detect \/ SnapshotMain \/ RunCurrentDay

SpecEngine == InitEngine /\ [][NextEngine]_vars

\* a run of one of the two ranking scripts
RankingRun == SnapshotMain \/ RunCurrentDay

\* C22: a detector run leaves the time-series store as it is (no item and no
\* period value created, deleted or modified), and a ranking run leaves the
\* change records and everything but the snapshot collections as they are:
\* a step that changes the time-series store is no detector run and no
\* ranking run, and a step that changes the change records is no ranking
\* run.
C22_Frames ==
    [][/\ (hourly_prices' # hourly_prices \/ hourly_quantity' # hourly_quantity
              \/ current_prices' # current_prices)
            => (~Detect /\ ~RankingRun)
       /\ (alerts' # alerts \/ run_result' # run_result) => ~RankingRun
       /\ snap' # snap => ~Detect]_vars

\* the detector has stored a record from a time series that is still there,
\* and a ranking run has put that record's item into a snapshot while the
\* record is still there
C22_Witness ==
    /\ run_result = "completed"
    /\ \E k \in DOMAIN alerts :
          /\ k[1] \in DOMAIN hourly_prices
          /\ Cardinality(DOMAIN hourly_prices[k[1]]) >= 2
          /\ \E d \in DOMAIN snap : \E q \in ListsOf(d) :
                \E j \in 1..Len(q) : q[j].csfloat_id = k[1] /\ q[j].hour = k[2]

-----------------------------------------------------------------------------
(* The representative of an item *)

\* the change entries of item i in window w that mode `mode` ranks
ItemEntries(i, w, mode, m) ==
    {e \in Unwound(alerts, w.start, w.end, m) :
        /\ e.csfloat_id = i
        /\ e.field # "null"
        /\ mode = "any" \/ e.field = mode}

\* row r is an entry of its item with the greatest score and, among the
\* entries of that score, the latest period
Represents(r, w, mode, m) ==
    LET E == ItemEntries(r.csfloat_id, w, mode, m)
    IN /\ r \in E
       /\ \A e \in E :
             /\ NumGe(r.score, e.score)
             /\ NumEq(r.score, e.score) => r.hour >= e.hour

\* every row of list q represents its item
AllRepresent(q, w, mode, m) == \A j \in 1..Len(q) : Represents(q[j], w, mode, m)

\* a list shorter than its limit holds every item with an entry
AllPresent(q, w, mode, m) ==
    Len(q) < TOP_LIMIT =>
        \A i \in Items :
            ItemEntries(i, w, mode, m) # {} => \E j \in 1..Len(q) : q[j].csfloat_id = i

\* C23: in every stored list, the row of an item is the item's entry of the
\* window (of the mode's field; of both fields in mode any) with the
\* greatest score and, among its entries with that score, the latest
\* period; a per-mode list that the limit has not cut holds a row for every
\* item with such an entry.
C23_BestPerItem ==
    \A k \in DOMAIN snap :
        LET d == snap[k]
        IN IF k[1] \in SnapshotColls
           THEN /\ AllRepresent(d.items, d.window, d.field_mode, d.metric)
                /\ AllPresent(d.items, d.window, d.field_mode, d.metric)
           ELSE /\ AllRepresent(d.top_price, d.window, "price", d.metric)
                /\ AllRepresent(d.top_quantity, d.window, "quantity", d.metric)
                /\ AllRepresent(d.top_any, d.window, "any", d.metric)

\* an any-mode list and a category's any list hold the row of an item with
\* entries in both fields and in two periods of the window, two of them with
\* the greatest score
C23_Witness ==
    \E k \in DOMAIN snap, c \in DOMAIN snap :
        /\ k[1] = COLL_ANY /\ c[1] \in CategoryColls
        /\ \E j \in 1..Len(snap[k].items), n \in 1..Len(snap[c].top_any) :
              LET r == snap[k].items[j]
                  E == ItemEntries(r.csfloat_id, snap[k].window, "any", snap[k].metric)
              IN /\ snap[c].top_any[n] = r
                 /\ snap[c].window = snap[k].window
                 /\ \E e \in E : NumLt(e.score, r.score)
                 /\ \E e \in E : NumEq(e.score, r.score) /\ e.hour < r.hour

-----------------------------------------------------------------------------
(* Cleanup of old change records beside the detector and the snapshots *)

\* the periods of window w among the keys of collection a
PeriodsIn(a, w) == {k \in DOMAIN a : k[2] >= w.start /\ k[2] < w.end}

\* C24: under every interleaving of detector runs, cleanup runs and snapshot
\* runs, a snapshot built for day D (the run of top_changes_snapshot without
\* arguments, or the fallback of top_changes_current_day) ranks over every
\* change record the detector stored with a period in D's window: none of
\* them has been removed by the cleanup before the snapshot of D is built.
C24_SnapshotSeesDay ==
    [][\/ PeriodsIn(detected, Yesterday) \subseteq DOMAIN alerts
       \/ ~(SnapshotYesterday \/ (FallbackCase /\ CurrentDayDefault))]_vars

\* C25: a cleanup run at time now deletes every change record whose period
\* is earlier than now - 24 hours, leaves every other record as it was (the
\* record exactly 24 hours before the hour of the clock goes once the clock
\* is past the start of its hour), adds none, and deletes no record of the
\* current day's window.
C25_CleanupFrame ==
    [][\/ /\ DOMAIN alerts' \subseteq DOMAIN alerts
          /\ \A k \in DOMAIN alerts' : alerts'[k] = alerts[k]
          /\ \A k \in DOMAIN alerts :
                /\ k[2] < now - RETENTION_HOURS => k \notin DOMAIN alerts'
                /\ k[2] > now - RETENTION_HOURS => k \in DOMAIN alerts'
                /\ k \notin DOMAIN alerts' => k[2] < Today.start
       \/ ~Cleanup]_vars

\* a record older than 24 hours is gone while a record of the current day is
\* still stored
C25_Witness ==
    /\ \E k \in DOMAIN detected : k[2] < now - RETENTION_HOURS /\ k \notin DOMAIN alerts
    /\ PeriodsIn(alerts, Today) # {}

-----------------------------------------------------------------------------
(* The date and the window of a stored snapshot *)

\* the document stored under k is dated by its key and by the start of its
\* window, and its window is one day long
DatedByWindow(k) ==
    /\ snap[k].snapshot_date = k[2]
    /\ snap[k].snapshot_date = snap[k].window.start
    /\ snap[k].window.end = snap[k].window.start + HOURS_PER_DAY

\* the documents a step creates or modifies
Written == {k \in DOMAIN snap' : k \notin DOMAIN snap \/ snap'[k] # snap[k]}

\* C26: every stored snapshot document has snapshot_date = window.start and
\* window.end = window.start + 1 day; a run of top_changes_current_day that
\* falls back writes the documents keyed by the previous day only, and
\* creates, modifies or removes no document keyed by another day.
C26_DatedByWindow ==
    /\ [](\A k \in DOMAIN snap : DatedByWindow(k))
    /\ [][\/ ~FallbackCase
          \/ /\ \A k \in Written : k[2] = Yesterday.start /\ k[1] \in CategoryColls
             /\ DOMAIN snap \subseteq DOMAIN snap'
             /\ \A cat \in Categories : <<col_map[cat], Yesterday.start>> \in DOMAIN snap'
          \/ ~CurrentDayDefault]_vars

\* a fallback has replaced the previous day's category documents while the
\* requested day's documents, written by an earlier run, are as they were
C26_Witness ==
    /\ FallbackCase
    /\ \A cat \in Categories :
          /\ <<col_map[cat], Today.start>> \in DOMAIN snap
          /\ <<col_map[cat], Yesterday.start>> \in DOMAIN snap
          /\ snap[<<col_map[cat], Yesterday.start>>].snapshot_date = Yesterday.start
    /\ <<COLL_ANY, Yesterday.start>> \in DOMAIN snap

-----------------------------------------------------------------------------
(* The period keys of the two maps of an item *)

\* the greatest key of K, and the greatest key of K below it (NoHour if none)
LatestKey(K) == IF K = {} THEN NoHour ELSE CHOOSE k \in K : \A j \in K : ~KeyLess(k, j)
KeyBefore(K) == LatestKey(K \ {LatestKey(K)})

\* the price map and the quantity map of every item have the same keys
SameKeys ==
    /\ DOMAIN hourly_prices = DOMAIN hourly_quantity
    /\ \A i \in DOMAIN hourly_prices : DOMAIN hourly_prices[i] = DOMAIN hourly_quantity[i]

\* the record written under k compares the quantities stored under the
\* period of k and under the quantity key before it
SamePeriod(k) ==
    LET qm == hourly_quantity[k[1]]
    IN /\ LatestKey(DOMAIN qm) # NoHour
       /\ ToDate(LatestKey(DOMAIN qm)) = k[2]
       /\ \A e \in Entries(alerts'[k]) :
             e.field = "quantity" =>
                /\ KeyBefore(DOMAIN qm) # NoHour
                /\ e.cur = ToNumber(qm[LatestKey(DOMAIN qm)])
                /\ e.prev = ToNumber(qm[KeyBefore(DOMAIN qm)])

\* C27: after any sequence of hourly ingestion runs every item's price map
\* and quantity map have the same period keys; the period under which a
\* detector run stores a record (the latest price key) is the latest
\* quantity key, and a quantity entry of that record compares the quantity
\* of that period with the quantity of the quantity key before it.
C27_SameKeys ==
    /\ []SameKeys
    /\ [][\/ \A k \in DOMAIN alerts' :
                (k \notin DOMAIN alerts \/ alerts'[k] # alerts[k]) => SamePeriod(k)
          \/ ~Detect]_vars

\* a quantity entry is stored for an item whose maps hold at least two
\* periods, one of them with a null quantity
C27_Witness ==
    \E k \in DOMAIN alerts :
        /\ \E e \in Entries(alerts[k]) : e.field = "quantity"
        /\ Cardinality(DOMAIN hourly_quantity[k[1]]) >= 2
        /\ DOMAIN hourly_quantity[k[1]] = DOMAIN hourly_prices[k[1]]
        /\ \E key \in DOMAIN hourly_quantity[k[1]] : hourly_quantity[k[1]][key] = Null

-----------------------------------------------------------------------------
(* The flush when bulk writes raise *)

RECURSIVE Flatten(_)
\* the operations of a sequence of futures, in submission order
Flatten(fs) == IF fs = <<>> THEN <<>> ELSE Head(fs).ops \o Flatten(Tail(fs))

\* the futures that write to collection `name`
FuturesOf(name) == SelectSeq(flush.futures, LAMBDA f : f.name = name)

\* the futures in which bulk_write caught an exception
Raised == {j \in 1..Len(flush.futures) : flush.futures[j].state = "raised"}

\* C28: the operations built for the named listings of a fetched list are,
\* per collection, submitted once each (the chunks of a collection, put end
\* to end, are the list of named listings); and when the errors are
\* reported every future has completed: a future that did not raise has
\* applied all its operations, and errs holds each raised future once.
C28_FlushAll ==
    flush # NoFlush =>
        /\ Flatten(FuturesOf("current")) = Named(flush.items)
        /\ Flatten(FuturesOf("history")) = Named(flush.items)
        /\ flush.reported =>
              /\ \A j \in 1..Len(flush.futures) :
                    \/ flush.futures[j].state = "raised"
                    \/ flush.futures[j].state = "done" /\ flush.futures[j].left = {}
              /\ {flush.errs[i].future : i \in 1..Len(flush.errs)} = Raised
              /\ Len(flush.errs) = Cardinality(Raised)

\* the errors are reported after a bulk write of the first chunk raised with
\* one operation applied, and a bulk write of a later, partial chunk was
\* completed
C28_Witness ==
    /\ flush.reported
    /\ Len(flush.futures) >= 4
    /\ flush.futures[1].state = "raised"
    /\ \E j \in 3..Len(flush.futures) :
          /\ flush.futures[j].state = "done"
          /\ Len(flush.futures[j].ops) < BULK_CHUNK
    /\ Cardinality(flush.futures[1].left) = 1

====
